---- MODULE Spec2Model ----
(***************************************************************************)
(* A model of the parser-combinator core of roc_parse                      *)
(* (crates/compiler/parse/src/parser.rs).                                  *)
(*                                                                         *)
(* A parser is a value (a record naming the combinator and its captured    *)
(* arguments); Parse applies it to a State and a min_indent, as            *)
(* Parser::parse does.  Every combinator is an operator of the same name   *)
(* as in the source, whose parameters are the captured arguments followed  *)
(* by (state, min_indent), and whose body follows the closure body.        *)
(*                                                                         *)
(* A result is Ok(progress, out, state) or Err(progress, fail), as         *)
(* ParseResult, plus two outcomes that are not values of ParseResult:      *)
(* Panic (a debug_assert that fails in a build with debug assertions) and  *)
(* Diverge (a `loop` that never exits).  Every result also carries         *)
(* `calls`, the record of the child parsers the combinator reached, in     *)
(* order, each with the state and min_indent it was given and what came of *)
(* it (Panic when building the child or running it panicked).              *)
(***************************************************************************)
EXTENDS Integers, Sequences, FiniteSets, TLC

VARIABLES
    source,             \* the source buffer handed to State::new
    debug_assertions,   \* whether the build has debug assertions enabled
    cursor,             \* the State reached in the buffer so far
    call,               \* the top-level call made: parser, state, min_indent
    result,             \* what that call returned
    INDENT,             \* the thread-local nesting depth of Traced::parse
    frames              \* cur_indent of each Traced::parse now running

vars == <<source, debug_assertions, cursor, call, result, INDENT, frames>>

----------------------------------------------------------------------------
(* Bounds of the model *)

MaxLen == 4         \* longest source buffer
MaxIndent == 1      \* largest min_indent handed to a top-level call, and
                    \* most blanks a buffer's line is indented by
MaxSkip == 1        \* bytes consumed before the top-level call
MaxFollow == 2      \* bytes after the literal's text in a buffer of literals
MaxDepth == 38      \* most Traced wrappers nested around one parser
MaxItems == 3       \* most numbers in the list of the end-to-end scenario

Bytes == {"a", ","}

RECURSIVE SeqsUpTo(_, _)
SeqsUpTo(S, n) ==
    IF n = 0 THEN {<<>>}
    ELSE LET shorter == SeqsUpTo(S, n - 1)
         IN shorter \cup {Append(s, b) : s \in {t \in shorter : Len(t) = n - 1}, b \in S}

Blank == " "

\* k blanks.
Blanks(k) == [i \in 1..k |-> Blank]

\* The source buffers: one line, indented by some blanks.
Inputs ==
    UNION {{Blanks(k) \o body : body \in SeqsUpTo(Bytes, MaxLen - k)} : k \in 0..MaxIndent}

----------------------------------------------------------------------------
(* Progress *)

MadeProgress == "MadeProgress"
NoProgress == "NoProgress"

progress_when(made_progress) == IF made_progress THEN MadeProgress ELSE NoProgress

from_consumed(chars_consumed) == progress_when(chars_consumed # 0)

\* What from_lengths yields in place of a Progress when `before - after`
\* panics ("attempt to subtract with overflow").
Panicked == "Panic"

\* `before - after` on usize: with before < after a build with overflow
\* checks (they follow debug assertions) panics, and one without wraps to a
\* number that is not 0.
from_lengths(before_len, after_len) ==
    IF debug_assertions /\ before_len < after_len
    THEN Panicked
    ELSE from_consumed(before_len - after_len)

or(self, other) ==
    IF self = MadeProgress \/ other = MadeProgress THEN MadeProgress ELSE NoProgress

----------------------------------------------------------------------------
(* State: the cursor over the source buffer *)

State_new(bytes_) == [original_bytes |-> bytes_, offset |-> 0, line_indent |-> 0]

bytes(s) == SubSeq(s.original_bytes, s.offset + 1, Len(s.original_bytes))

pos(s) == s.offset

advance(s, n) == [s EXCEPT !.offset = @ + n]

\* The column of the cursor in its line.  The buffers here hold one line,
\* which starts at offset 0.
column(s) == s.offset

\* The column at which the current line's first non-blank byte stands, as
\* far as the blanks leading the line have been consumed.
line_indent(s) == s.line_indent

\* The state after one more byte was consumed by the grammar around the
\* core: consuming a blank that leads the line moves the line's indentation.
skip(s) ==
    IF bytes(s)[1] = Blank /\ line_indent(s) = column(s)
    THEN [advance(s, 1) EXCEPT !.line_indent = @ + 1]
    ELSE advance(s, 1)

----------------------------------------------------------------------------
(* Results, outputs and errors *)

Ok(progress, out, s) ==
    [progress |-> progress, out |-> out, kind |-> "Ok", state |-> s, calls |-> <<>>]

Err(progress, fail_) ==
    [progress |-> progress, kind |-> "Err", calls |-> <<>>, fail |-> fail_]

Panic == [kind |-> "Panic", calls |-> <<>>]

Diverge == [kind |-> "Diverge", calls |-> <<>>]

\* No call made yet.
NoResult == [kind |-> "None", calls |-> <<>>]

\* One child invocation: which argument ran, on what, and what it returned.
Ran(role, s, m, r) == [state |-> s, role |-> role, min_indent |-> m, res |-> r]

With(r, calls) == [r EXCEPT !.calls = calls]

\* The ParseResult alone, without the record of the calls behind it.
Outcome(r) == With(r, <<>>)

IsOk(r) == r.kind = "Ok"
IsErr(r) == r.kind = "Err"
Failed(r, progress) == r.kind = "Err" /\ r.progress = progress

Unit == [t |-> "unit"]
Pair(a, b) == [t |-> "pair", fst |-> a, snd |-> b]
Some(v) == [t |-> "some", value |-> v]
None == [t |-> "none"]
Vec(items) == [t |-> "vec", items |-> items]
Region(start, end) == [start |-> start, end |-> end]
Loc(region, value) == [t |-> "loc", value |-> value, region |-> region]
First(v) == [t |-> "first", value |-> v]
Second(v) == [t |-> "second", value |-> v]

\* An error constructor such as Problem::NotFound applied to a Position.
Problem(to_error, position) == [pos |-> position, problem |-> to_error]

\* arena.alloc(value): a reference to the value, now in the arena.
alloc(value) == [t |-> "ref", value |-> value]

\* A transform such as |output| f(output) applied to an output, and one such
\* as |arena, output| f(arena, output) applied to the arena and an output.
Transformed(transform, output) == [t |-> "mapped", f |-> transform, arg |-> output]
TransformedInArena(transform, output) ==
    [t |-> "mapped_with_arena", f |-> transform, arg |-> output]

\* A map_error function such as |prev_err, pos| Problem::Other(prev_err, pos)
\* applied to a lower-level error and a Position.
Mapped(map_error, error, position) ==
    [pos |-> position, problem |-> map_error, inner |-> error]

----------------------------------------------------------------------------
(* Parser values *)

Byte(byte_to_match, to_error) ==
    [to_error |-> to_error, byte_to_match |-> byte_to_match, c |-> "byte"]
ByteIndent(byte_to_match, to_error) ==
    [to_error |-> to_error, byte_to_match |-> byte_to_match, c |-> "byte_indent"]
And(p1, p2) == [c |-> "and", p1 |-> p1, p2 |-> p2, form |-> "macro"]
OneOf(p1, p2) == [c |-> "one_of", p1 |-> p1, p2 |-> p2]
EitherOf(p1, p2) == [c |-> "either", p1 |-> p1, p2 |-> p2]
Optional(parser) == [c |-> "optional", parser |-> parser]
ZeroOrMore(parser) == [c |-> "zero_or_more", parser |-> parser]
OneOrMore(parser, to_error) ==
    [to_error |-> to_error, c |-> "one_or_more", parser |-> parser]
SepBy0(delimiter, parser) ==
    [c |-> "sep_by0", parser |-> parser, delimiter |-> delimiter]
TrailingSepBy0(delimiter, parser) ==
    [c |-> "trailing_sep_by0", parser |-> parser, delimiter |-> delimiter]
SepBy1(delimiter, parser) ==
    [c |-> "sep_by1", parser |-> parser, delimiter |-> delimiter]
SepBy1E(delimiter, parser, to_element_error) ==
    [c |-> "sep_by1_e", parser |-> parser, delimiter |-> delimiter, to_element_error |-> to_element_error]
Backtrackable(parser) == [c |-> "backtrackable", parser |-> parser]
LocOf(parser) == [c |-> "loc", form |-> "macro", parser |-> parser]
IndentedSeq(p1, p2) == [c |-> "indented_seq", p1 |-> p1, p2 |-> p2]
AbsoluteIndentedSeq(p1, p2) == [c |-> "absolute_indented_seq", p1 |-> p1, p2 |-> p2]
ResetMinIndent(parser) == [c |-> "reset_min_indent", parser |-> parser]
SetMinIndent(min_indent, parser) ==
    [min_indent |-> min_indent, c |-> "set_min_indent", parser |-> parser]
IncrementMinIndent(parser) == [c |-> "increment_min_indent", parser |-> parser]
LineMinIndent(parser) == [c |-> "line_min_indent", parser |-> parser]
AbsoluteColumnMinIndent(parser) == [c |-> "absolute_column_min_indent", parser |-> parser]
Map(parser, transform) == [transform |-> transform, c |-> "map", parser |-> parser]
MapWithArena(parser, transform) ==
    [transform |-> transform, c |-> "map_with_arena", form |-> "macro", parser |-> parser]
Allocated(parser) == [c |-> "allocated", parser |-> parser]
SpecializeErr(map_error, parser) ==
    [map_error |-> map_error, c |-> "specialize_err", parser |-> parser]
SpecializeErrRef(map_error, parser) ==
    [map_error |-> map_error, c |-> "specialize_err_ref", parser |-> parser]

\* one_of!(p1, p2, ..., pn) expands to one_of!(p1, one_of!(p2, ..., pn)).
RECURSIVE OneOfN(_)
Word(word, to_error) == [to_error |-> to_error, c |-> "word", word |-> word]
Keyword(keyword_str, if_error) ==
    [c |-> "keyword", keyword_str |-> keyword_str, if_error |-> if_error]
TwoBytes(byte_1, byte_2, to_error) ==
    [to_error |-> to_error, c |-> "two_bytes", byte_1 |-> byte_1, byte_2 |-> byte_2]
ThreeBytes(byte_1, byte_2, byte_3, to_error) ==
    [to_error |-> to_error, c |-> "three_bytes", byte_1 |-> byte_1, byte_2 |-> byte_2, byte_3 |-> byte_3]

AndThen(parser, transform) == [transform |-> transform, c |-> "and_then", parser |-> parser]
Then(parser, transform) == [transform |-> transform, c |-> "then", parser |-> parser]
FailWhen(f, p) == [f |-> f, c |-> "fail_when", p |-> p]
Record(name, fields) == [c |-> "record", name |-> name, fields |-> fields]
SkipFirst(p1, p2) == [c |-> "skip_first", p1 |-> p1, p2 |-> p2]

\* The function versions and(p1, p2), loc(parser) and
\* map_with_arena(parser, transform): each takes its parsers as arguments
\* and expands the macro of its name on them.
AndFn(p1, p2) == [c |-> "and", p1 |-> p1, p2 |-> p2, form |-> "fn"]
LocFn(parser) == [c |-> "loc", form |-> "fn", parser |-> parser]
MapWithArenaFn(parser, transform) ==
    [transform |-> transform, c |-> "map_with_arena", form |-> "fn", parser |-> parser]
SkipSecond(p1, p2) == [c |-> "skip_second", p1 |-> p1, p2 |-> p2]
Between(opening_brace, parser, closing_brace) ==
    [c |-> "between", parser |-> parser, opening_brace |-> opening_brace, closing_brace |-> closing_brace]
NumberLiteral(to_error) == [to_error |-> to_error, c |-> "number"]
Traced(parser, message) == [c |-> "traced", parser |-> parser, message |-> message]

OneOfN(ps) ==
    IF Len(ps) = 2 THEN OneOf(ps[1], ps[2]) ELSE OneOf(ps[1], OneOfN(Tail(ps)))

RECURSIVE Parse(_, _, _)

----------------------------------------------------------------------------
(* Leaf matchers *)

byte(byte_to_match, to_error, state, min_indent) ==
    IF debug_assertions /\ byte_to_match = "\n"
    THEN Panic
    ELSE IF Len(bytes(state)) > 0 /\ bytes(state)[1] = byte_to_match
    THEN Ok(MadeProgress, Unit, advance(state, 1))
    ELSE Err(NoProgress, Problem(to_error, pos(state)))

\* byte_indent refusing a token that stands exactly at min_indent.
byte_indent_inclusive(byte_to_match, to_error, state, min_indent) ==
    IF min_indent >= column(state)
    THEN Err(NoProgress, Problem(to_error, pos(state)))
    ELSE IF Len(bytes(state)) > 0 /\ bytes(state)[1] = byte_to_match
    THEN Ok(MadeProgress, Unit, advance(state, 1))
    ELSE Err(NoProgress, Problem(to_error, pos(state)))

byte_indent(byte_to_match, to_error, state, min_indent) ==
    IF debug_assertions /\ byte_to_match = "\n"
    THEN Panic
    ELSE IF min_indent > column(state)
    THEN Err(NoProgress, Problem(to_error, pos(state)))
    ELSE IF Len(bytes(state)) > 0 /\ bytes(state)[1] = byte_to_match
    THEN Ok(MadeProgress, Unit, advance(state, 1))
    ELSE Err(NoProgress, Problem(to_error, pos(state)))

\* <[u8]>::starts_with: needle is a prefix of haystack.
starts_with(haystack, needle) ==
    /\ Len(needle) <= Len(haystack)
    /\ SubSeq(haystack, 1, Len(needle)) = needle

\* The bytes keyword accepts after the keyword: b' ', b'#', b'\n', b'\r'.
KeywordEnd == {" ", "#", "\n", "\r"}

word(word_, to_error, state, min_indent) ==
    IF debug_assertions /\ (\E i \in 1..Len(word_) : word_[i] = "\n")
    THEN Panic
    ELSE IF starts_with(bytes(state), word_)
    THEN Ok(MadeProgress, Unit, advance(state, Len(word_)))
    ELSE Err(NoProgress, Problem(to_error, pos(state)))

\* two_bytes gated by the indentation check of byte_indent.
two_bytes_indented(byte_1, byte_2, to_error, state, min_indent) ==
    LET needle == <<byte_1, byte_2>>
    IN  IF min_indent <= column(state) /\ starts_with(bytes(state), needle)
        THEN Ok(MadeProgress, Unit, advance(state, 2))
        ELSE Err(NoProgress, Problem(to_error, pos(state)))

two_bytes(byte_1, byte_2, to_error, state, min_indent) ==
    LET needle == <<byte_1, byte_2>>
    IN  IF debug_assertions /\ (byte_1 = "\n" \/ byte_2 = "\n")
        THEN Panic
        ELSE IF starts_with(bytes(state), needle)
        THEN Ok(MadeProgress, Unit, advance(state, 2))
        ELSE Err(NoProgress, Problem(to_error, pos(state)))

three_bytes(byte_1, byte_2, byte_3, to_error, state, min_indent) ==
    LET needle == <<byte_1, byte_2, byte_3>>
    IN  IF debug_assertions /\ (byte_1 = "\n" \/ byte_2 = "\n" \/ byte_3 = "\n")
        THEN Panic
        ELSE IF starts_with(bytes(state), needle)
        THEN Ok(MadeProgress, Unit, advance(state, 3))
        ELSE Err(NoProgress, Problem(to_error, pos(state)))

\* keyword taking the keyword wherever the input starts with it.
keyword_prefix(keyword_str, if_error, state, min_indent) ==
    IF starts_with(bytes(state), keyword_str)
    THEN Ok(MadeProgress, Unit, advance(state, Len(keyword_str)))
    ELSE Err(NoProgress, Problem(if_error, pos(state)))

keyword(keyword_str, if_error, state, min_indent) ==
    LET width == Len(keyword_str)
    IN  IF ~starts_with(bytes(state), keyword_str)
        THEN Err(NoProgress, Problem(if_error, pos(state)))
        ELSE IF Len(bytes(state)) > width /\ bytes(state)[width + 1] \in KeywordEnd
        THEN Ok(MadeProgress, Unit, advance(state, width))
        ELSE IF Len(bytes(state)) <= width
        THEN Ok(MadeProgress, Unit, advance(state, width))
        ELSE Err(NoProgress, Problem(if_error, pos(state)))

----------------------------------------------------------------------------
(* Sequencing and choice *)

\* and! that reports the second parser's failure with that parser's progress.
and_forgetting(p1, p2, state, min_indent) ==
    LET r1 == Parse(p1, state, min_indent)
        c1 == Ran("p1", state, min_indent, r1)
    IN  CASE r1.kind = "Ok" ->
                LET r2 == Parse(p2, r1.state, min_indent)
                    c2 == Ran("p2", r1.state, min_indent, r2)
                IN  CASE r2.kind = "Ok" ->
                            With(Ok(or(r1.progress, r2.progress),
                                    Pair(r1.out, r2.out), r2.state), <<c1, c2>>)
                      [] r2.kind = "Err" -> With(Err(r2.progress, r2.fail), <<c1, c2>>)
                      [] OTHER -> With(r2, <<c1, c2>>)
          [] r1.kind = "Err" -> With(Err(r1.progress, r1.fail), <<c1>>)
          [] OTHER -> With(r1, <<c1>>)

and(p1, p2, state, min_indent) ==
    LET r1 == Parse(p1, state, min_indent)
        c1 == Ran("p1", state, min_indent, r1)
    IN  CASE r1.kind = "Ok" ->
                LET r2 == Parse(p2, r1.state, min_indent)
                    c2 == Ran("p2", r1.state, min_indent, r2)
                IN  CASE r2.kind = "Ok" ->
                            With(Ok(or(r1.progress, r2.progress),
                                    Pair(r1.out, r2.out), r2.state), <<c1, c2>>)
                      [] r2.kind = "Err" ->
                            With(Err(or(r1.progress, r2.progress), r2.fail), <<c1, c2>>)
                      [] OTHER -> With(r2, <<c1, c2>>)
          [] r1.kind = "Err" -> With(Err(r1.progress, r1.fail), <<c1>>)
          [] OTHER -> With(r1, <<c1>>)

\* one_of! that backtracks whatever the first alternative's progress.
one_of_retrying(p1, p2, state, min_indent) ==
    LET original_state == state
        r1 == Parse(p1, state, min_indent)
        c1 == Ran("p1", state, min_indent, r1)
    IN  CASE r1.kind = "Ok" -> With(r1, <<c1>>)
          [] r1.kind = "Err" ->
                LET r2 == Parse(p2, original_state, min_indent)
                    c2 == Ran("p2", original_state, min_indent, r2)
                IN  With(r2, <<c1, c2>>)
          [] OTHER -> With(r1, <<c1>>)

one_of(p1, p2, state, min_indent) ==
    LET original_state == state
        r1 == Parse(p1, state, min_indent)
        c1 == Ran("p1", state, min_indent, r1)
    IN  CASE r1.kind = "Ok" -> With(r1, <<c1>>)
          [] Failed(r1, MadeProgress) -> With(Err(MadeProgress, r1.fail), <<c1>>)
          [] Failed(r1, NoProgress) ->
                LET r2 == Parse(p2, original_state, min_indent)
                    c2 == Ran("p2", original_state, min_indent, r2)
                IN  With(r2, <<c1, c2>>)
          [] OTHER -> With(r1, <<c1>>)

either(p1, p2, state, min_indent) ==
    LET original_state == state
        r1 == Parse(p1, state, min_indent)
        c1 == Ran("p1", state, min_indent, r1)
    IN  CASE r1.kind = "Ok" -> With(Ok(r1.progress, First(r1.out), r1.state), <<c1>>)
          [] Failed(r1, NoProgress) ->
                LET r2 == Parse(p2, original_state, min_indent)
                    c2 == Ran("p2", original_state, min_indent, r2)
                IN  CASE r2.kind = "Ok" ->
                            With(Ok(r2.progress, Second(r2.out), r2.state), <<c1, c2>>)
                      [] r2.kind = "Err" -> With(Err(r2.progress, r2.fail), <<c1, c2>>)
                      [] OTHER -> With(r2, <<c1, c2>>)
          [] Failed(r1, MadeProgress) -> With(Err(MadeProgress, r1.fail), <<c1>>)
          [] OTHER -> With(r1, <<c1>>)

\* optional that turns any failure into None.
optional_swallowing(parser, state, min_indent) ==
    LET original_state == state
        r == Parse(parser, state, min_indent)
        c == Ran("parser", state, min_indent, r)
    IN  CASE r.kind = "Ok" -> With(Ok(r.progress, Some(r.out), r.state), <<c>>)
          [] r.kind = "Err" -> With(Ok(NoProgress, None, original_state), <<c>>)
          [] OTHER -> With(r, <<c>>)

\* optional that reports NoProgress for whatever it returns.
optional_masking(parser, state, min_indent) ==
    LET original_state == state
        r == Parse(parser, state, min_indent)
        c == Ran("parser", state, min_indent, r)
    IN  CASE r.kind = "Ok" -> With(Ok(NoProgress, Some(r.out), r.state), <<c>>)
          [] Failed(r, MadeProgress) -> With(Err(MadeProgress, r.fail), <<c>>)
          [] Failed(r, NoProgress) -> With(Ok(NoProgress, None, original_state), <<c>>)
          [] OTHER -> With(r, <<c>>)

optional(parser, state, min_indent) ==
    LET original_state == state
        r == Parse(parser, state, min_indent)
        c == Ran("parser", state, min_indent, r)
    IN  CASE r.kind = "Ok" -> With(Ok(r.progress, Some(r.out), r.state), <<c>>)
          [] Failed(r, MadeProgress) -> With(Err(MadeProgress, r.fail), <<c>>)
          [] Failed(r, NoProgress) -> With(Ok(NoProgress, None, original_state), <<c>>)
          [] OTHER -> With(r, <<c>>)

\* backtrackable that lets the parser's progress through.
backtrackable_transparent(parser, state, min_indent) ==
    LET r == Parse(parser, state, min_indent)
        c == Ran("parser", state, min_indent, r)
    IN  With(r, <<c>>)

\* backtrackable that replaces the parser's error by an empty failure.
backtrackable_forgetful(parser, state, min_indent) ==
    LET r == Parse(parser, state, min_indent)
        c == Ran("parser", state, min_indent, r)
    IN  CASE r.kind = "Ok" -> With(Ok(NoProgress, r.out, r.state), <<c>>)
          [] r.kind = "Err" -> With(Err(NoProgress, Problem("Empty", pos(state))), <<c>>)
          [] OTHER -> With(r, <<c>>)

backtrackable(parser, state, min_indent) ==
    LET r == Parse(parser, state, min_indent)
        c == Ran("parser", state, min_indent, r)
    IN  CASE r.kind = "Ok" -> With(Ok(NoProgress, r.out, r.state), <<c>>)
          [] r.kind = "Err" -> With(Err(NoProgress, r.fail), <<c>>)
          [] OTHER -> With(r, <<c>>)

\* loc! that reads both ends of the region after the parser has run.
loc_collapsed(parser, state, min_indent) ==
    LET r == Parse(parser, state, min_indent)
        c == Ran("parser", state, min_indent, r)
    IN  CASE r.kind = "Ok" ->
                LET end == pos(r.state)
                    region == Region(end, end)
                IN  With(Ok(r.progress, Loc(region, r.out), r.state), <<c>>)
          [] OTHER -> With(r, <<c>>)

loc(parser, state, min_indent) ==
    LET start == pos(state)
        r == Parse(parser, state, min_indent)
        c == Ran("parser", state, min_indent, r)
    IN  CASE r.kind = "Ok" ->
                LET end == pos(r.state)
                    region == Region(start, end)
                IN  With(Ok(r.progress, Loc(region, r.out), r.state), <<c>>)
          [] OTHER -> With(r, <<c>>)

----------------------------------------------------------------------------
(* Indentation thresholds *)

Max(a, b) == IF a >= b THEN a ELSE b

\* n is u32::MAX, 2^32 - 1, told by its two 16-bit halves.
is_u32_MAX(n) == n \div 65536 = 65535 /\ n % 65536 = 65535

\* `n + 1` on u32 in a build without overflow checks; a build with them
\* panics at u32::MAX ("attempt to add with overflow").
wrapping_add_one(n) == IF is_u32_MAX(n) THEN 0 ELSE n + 1

\* indented_seq! that takes the ambient min_indent into account, as the
\* line left commented out in the source would.
indented_seq_ambient(p1, p2, state, min_indent) ==
    LET start_indent == line_indent(state)
        p1_indent == Max(start_indent, min_indent)
        p2_indent == p1_indent + 1
        r1 == Parse(p1, state, p1_indent)
        c1 == Ran("p1", state, p1_indent, r1)
    IN  CASE r1.kind = "Ok" ->
                LET r2 == Parse(p2, r1.state, p2_indent)
                    c2 == Ran("p2", r1.state, p2_indent, r2)
                IN  CASE r2.kind = "Ok" ->
                            With(Ok(or(r1.progress, r2.progress), r2.out, r2.state),
                                 <<c1, c2>>)
                      [] r2.kind = "Err" ->
                            With(Err(or(r1.progress, r2.progress), r2.fail), <<c1, c2>>)
                      [] OTHER -> With(r2, <<c1, c2>>)
          [] r1.kind = "Err" -> With(Err(r1.progress, r1.fail), <<c1>>)
          [] OTHER -> With(r1, <<c1>>)

indented_seq(p1, p2, state, min_indent) ==
    LET start_indent == line_indent(state)
        p1_indent == start_indent
        p2_indent == wrapping_add_one(p1_indent)
        r1 == Parse(p1, state, p1_indent)
        c1 == Ran("p1", state, p1_indent, r1)
    IN  CASE debug_assertions /\ is_u32_MAX(p1_indent) -> Panic
          [] r1.kind = "Ok" ->
                LET r2 == Parse(p2, r1.state, p2_indent)
                    c2 == Ran("p2", r1.state, p2_indent, r2)
                IN  CASE r2.kind = "Ok" ->
                            With(Ok(or(r1.progress, r2.progress), r2.out, r2.state),
                                 <<c1, c2>>)
                      [] r2.kind = "Err" ->
                            With(Err(or(r1.progress, r2.progress), r2.fail), <<c1, c2>>)
                      [] OTHER -> With(r2, <<c1, c2>>)
          [] r1.kind = "Err" -> With(Err(r1.progress, r1.fail), <<c1>>)
          [] OTHER -> With(r1, <<c1>>)

absolute_indented_seq(p1, p2, state, min_indent) ==
    LET start_indent == column(state)
        p1_indent == start_indent
        p2_indent == wrapping_add_one(p1_indent)
        r1 == Parse(p1, state, p1_indent)
        c1 == Ran("p1", state, p1_indent, r1)
    IN  CASE debug_assertions /\ is_u32_MAX(p1_indent) -> Panic
          [] r1.kind = "Ok" ->
                LET r2 == Parse(p2, r1.state, p2_indent)
                    c2 == Ran("p2", r1.state, p2_indent, r2)
                IN  CASE r2.kind = "Ok" ->
                            With(Ok(or(r1.progress, r2.progress),
                                    Pair(r1.out, r2.out), r2.state), <<c1, c2>>)
                      [] r2.kind = "Err" ->
                            With(Err(or(r1.progress, r2.progress), r2.fail), <<c1, c2>>)
                      [] OTHER -> With(r2, <<c1, c2>>)
          [] r1.kind = "Err" -> With(Err(r1.progress, r1.fail), <<c1>>)
          [] OTHER -> With(r1, <<c1>>)

reset_min_indent(parser, state, min_indent) ==
    LET r == Parse(parser, state, 0)
    IN  With(r, <<Ran("parser", state, 0, r)>>)

set_min_indent(min_indent_, parser, state, min_indent) ==
    LET r == Parse(parser, state, min_indent_)
    IN  With(r, <<Ran("parser", state, min_indent_, r)>>)

increment_min_indent(parser, state, min_indent) ==
    LET min_indent_ == wrapping_add_one(min_indent)
        r == Parse(parser, state, min_indent_)
    IN  IF debug_assertions /\ is_u32_MAX(min_indent)
        THEN Panic
        ELSE With(r, <<Ran("parser", state, min_indent_, r)>>)

line_min_indent(parser, state, min_indent) ==
    LET min_indent_ == Max(line_indent(state), min_indent)
        r == Parse(parser, state, min_indent_)
    IN  With(r, <<Ran("parser", state, min_indent_, r)>>)

\* absolute_column_min_indent that allows the parser the cursor's own column.
absolute_column_min_indent_at(parser, state, min_indent) ==
    LET min_indent_ == column(state)
        r == Parse(parser, state, min_indent_)
    IN  With(r, <<Ran("parser", state, min_indent_, r)>>)

absolute_column_min_indent(parser, state, min_indent) ==
    LET min_indent_ == wrapping_add_one(column(state))
        r == Parse(parser, state, min_indent_)
    IN  IF debug_assertions /\ is_u32_MAX(column(state))
        THEN Panic
        ELSE With(r, <<Ran("parser", state, min_indent_, r)>>)

----------------------------------------------------------------------------
(* Output transforms *)

\* map! that hands back the state it was given.
map_rewinding(parser, transform, state, min_indent) ==
    LET r == Parse(parser, state, min_indent)
        c == Ran("parser", state, min_indent, r)
    IN  CASE r.kind = "Ok" ->
                With(Ok(r.progress, Transformed(transform, r.out), state), <<c>>)
          [] OTHER -> With(r, <<c>>)

map(parser, transform, state, min_indent) ==
    LET r == Parse(parser, state, min_indent)
        c == Ran("parser", state, min_indent, r)
    IN  CASE r.kind = "Ok" ->
                With(Ok(r.progress, Transformed(transform, r.out), r.state), <<c>>)
          [] OTHER -> With(r, <<c>>)

map_with_arena(parser, transform, state, min_indent) ==
    LET r == Parse(parser, state, min_indent)
        c == Ran("parser", state, min_indent, r)
    IN  CASE r.kind = "Ok" ->
                With(Ok(r.progress, TransformedInArena(transform, r.out), r.state), <<c>>)
          [] OTHER -> With(r, <<c>>)

allocated(parser, state, min_indent) ==
    LET r == Parse(parser, state, min_indent)
        c == Ran("parser", state, min_indent, r)
    IN  CASE r.kind = "Ok" -> With(Ok(r.progress, alloc(r.out), r.state), <<c>>)
          [] OTHER -> With(r, <<c>>)

----------------------------------------------------------------------------
(* Error re-mapping *)

\* specialize_err that tags the error with the position the parser stopped at.
specialize_err_at_failure(map_error, parser, state, min_indent) ==
    LET r == Parse(parser, state, min_indent)
        c == Ran("parser", state, min_indent, r)
    IN  CASE r.kind = "Ok" -> With(r, <<c>>)
          [] r.kind = "Err" ->
                With(Err(r.progress, Mapped(map_error, r.fail, r.fail.pos)), <<c>>)
          [] OTHER -> With(r, <<c>>)

specialize_err(map_error, parser, state, min_indent) ==
    LET original_state == state
        r == Parse(parser, state, min_indent)
        c == Ran("parser", state, min_indent, r)
    IN  CASE r.kind = "Ok" -> With(r, <<c>>)
          [] r.kind = "Err" ->
                With(Err(r.progress, Mapped(map_error, r.fail, pos(original_state))), <<c>>)
          [] OTHER -> With(r, <<c>>)

specialize_err_ref(map_error, parser, state, min_indent) ==
    LET original_state == state
        r == Parse(parser, state, min_indent)
        c == Ran("parser", state, min_indent, r)
    IN  CASE r.kind = "Ok" -> With(r, <<c>>)
          [] r.kind = "Err" ->
                With(Err(r.progress,
                         Mapped(map_error, alloc(r.fail), pos(original_state))), <<c>>)
          [] OTHER -> With(r, <<c>>)

----------------------------------------------------------------------------
(* Repetition.  Each `loop` is a recursive operator over the loop's          *)
(* variables (state, buf); `calls` is the record of the attempts so far.     *)
(* Parsers are deterministic, so an iteration that ends in the state it      *)
(* began in would repeat without end: the loop Diverges.                     *)

RECURSIVE zero_or_more_loop(_, _, _, _, _, _)

\* The loop without `state = next_state`: a success is tried again from the
\* same state, for ever.
zero_or_more_loop_stuck(parser, state, buf, calls, start_bytes_len, min_indent) ==
    LET old_state == state
        r == Parse(parser, state, min_indent)
        cs == Append(calls, Ran("parser", state, min_indent, r))
    IN  CASE r.kind = "Ok" -> With(Diverge, cs)
          [] Failed(r, MadeProgress) -> With(Err(MadeProgress, r.fail), cs)
          [] Failed(r, NoProgress) ->
                LET progress == from_lengths(start_bytes_len, Len(bytes(old_state)))
                IN  IF progress = Panicked THEN With(Panic, cs)
                    ELSE With(Ok(progress, Vec(buf), old_state), cs)
          [] OTHER -> With(r, cs)

\* The loop ending, as sep_by0 does, with NoProgress whatever was consumed.
zero_or_more_loop_silent(parser, state, buf, calls, start_bytes_len, min_indent) ==
    LET old_state == state
        r == Parse(parser, state, min_indent)
        cs == Append(calls, Ran("parser", state, min_indent, r))
    IN  CASE r.kind = "Ok" ->
                IF r.state = old_state THEN With(Diverge, cs)
                ELSE zero_or_more_loop(parser, r.state, Append(buf, r.out), cs,
                                       start_bytes_len, min_indent)
          [] Failed(r, MadeProgress) -> With(Err(MadeProgress, r.fail), cs)
          [] Failed(r, NoProgress) -> With(Ok(NoProgress, Vec(buf), old_state), cs)
          [] OTHER -> With(r, cs)

zero_or_more_loop(parser, state, buf, calls, start_bytes_len, min_indent) ==
    LET old_state == state
        r == Parse(parser, state, min_indent)
        cs == Append(calls, Ran("parser", state, min_indent, r))
    IN  CASE r.kind = "Ok" ->
                IF r.state = old_state THEN With(Diverge, cs)
                ELSE zero_or_more_loop(parser, r.state, Append(buf, r.out), cs,
                                       start_bytes_len, min_indent)
          [] Failed(r, MadeProgress) -> With(Err(MadeProgress, r.fail), cs)
          [] Failed(r, NoProgress) ->
                LET progress == from_lengths(start_bytes_len, Len(bytes(old_state)))
                IN  IF progress = Panicked THEN With(Panic, cs)
                    ELSE With(Ok(progress, Vec(buf), old_state), cs)
          [] OTHER -> With(r, cs)

zero_or_more(parser, state, min_indent) ==
    LET original_state == state
        start_bytes_len == Len(bytes(state))
        r == Parse(parser, state, min_indent)
        c == Ran("parser", state, min_indent, r)
    IN  CASE r.kind = "Ok" ->
                zero_or_more_loop(parser, r.state, <<r.out>>, <<c>>,
                                  start_bytes_len, min_indent)
          [] Failed(r, MadeProgress) -> With(Err(MadeProgress, r.fail), <<c>>)
          [] Failed(r, NoProgress) -> With(Ok(NoProgress, Vec(<<>>), original_state), <<c>>)
          [] OTHER -> With(r, <<c>>)

RECURSIVE one_or_more_loop(_, _, _, _, _)
one_or_more_loop(parser, state, buf, calls, min_indent) ==
    LET old_state == state
        r == Parse(parser, state, min_indent)
        cs == Append(calls, Ran("parser", state, min_indent, r))
    IN  CASE r.kind = "Ok" ->
                IF r.state = old_state THEN With(Diverge, cs)
                ELSE one_or_more_loop(parser, r.state, Append(buf, r.out), cs, min_indent)
          [] Failed(r, NoProgress) -> With(Ok(MadeProgress, Vec(buf), old_state), cs)
          [] Failed(r, MadeProgress) -> With(Err(MadeProgress, r.fail), cs)
          [] OTHER -> With(r, cs)

one_or_more(parser, to_error, state, min_indent) ==
    LET r == Parse(parser, state, min_indent)
        c == Ran("parser", state, min_indent, r)
    IN  CASE r.kind = "Ok" ->
                one_or_more_loop(parser, r.state, <<r.out>>, <<c>>, min_indent)
          [] r.kind = "Err" -> With(Err(r.progress, Problem(to_error, pos(state))), <<c>>)
          [] OTHER -> With(r, <<c>>)

----------------------------------------------------------------------------
(* Separated lists *)

RECURSIVE sep_by0_loop(_, _, _, _, _, _, _)
sep_by0_loop(delimiter, parser, state, buf, calls, start_bytes_len, min_indent) ==
    LET rd == Parse(delimiter, state, min_indent)
        cd == Append(calls, Ran("delimiter", state, min_indent, rd))
    IN  CASE rd.kind = "Ok" ->
                LET next_state == rd.state
                    re == Parse(parser, next_state, min_indent)
                    ce == Append(cd, Ran("parser", next_state, min_indent, re))
                IN  CASE re.kind = "Ok" ->
                            IF debug_assertions /\ re.progress # MadeProgress
                            THEN With(Panic, ce)
                            ELSE IF re.state = state THEN With(Diverge, ce)
                            ELSE sep_by0_loop(delimiter, parser, re.state,
                                              Append(buf, re.out), ce,
                                              start_bytes_len, min_indent)
                      [] re.kind = "Err" ->
                            LET progress ==
                                    from_lengths(start_bytes_len, Len(bytes(next_state)))
                            IN  IF progress = Panicked THEN With(Panic, ce)
                                ELSE With(Err(progress, re.fail), ce)
                      [] OTHER -> With(re, ce)
          [] Failed(rd, MadeProgress) -> With(Err(MadeProgress, rd.fail), cd)
          [] Failed(rd, NoProgress) -> With(Ok(NoProgress, Vec(buf), state), cd)
          [] OTHER -> With(rd, cd)

\* sep_by0 that, like sep_by1, refuses a list of no elements.
sep_by0_strict(delimiter, parser, state, min_indent) ==
    LET start_bytes_len == Len(bytes(state))
        r == Parse(parser, state, min_indent)
        c == Ran("parser", state, min_indent, r)
    IN  CASE r.kind = "Ok" ->
                IF debug_assertions /\ r.progress # MadeProgress
                THEN With(Panic, <<c>>)
                ELSE sep_by0_loop(delimiter, parser, r.state, <<r.out>>, <<c>>,
                                  start_bytes_len, min_indent)
          [] r.kind = "Err" -> With(Err(r.progress, r.fail), <<c>>)
          [] OTHER -> With(r, <<c>>)

sep_by0(delimiter, parser, state, min_indent) ==
    LET original_state == state
        start_bytes_len == Len(bytes(state))
        r == Parse(parser, state, min_indent)
        c == Ran("parser", state, min_indent, r)
    IN  CASE r.kind = "Ok" ->
                IF debug_assertions /\ r.progress # MadeProgress
                THEN With(Panic, <<c>>)
                ELSE sep_by0_loop(delimiter, parser, r.state, <<r.out>>, <<c>>,
                                  start_bytes_len, min_indent)
          [] Failed(r, MadeProgress) -> With(Err(MadeProgress, r.fail), <<c>>)
          [] Failed(r, NoProgress) -> With(Ok(NoProgress, Vec(<<>>), original_state), <<c>>)
          [] OTHER -> With(r, <<c>>)

RECURSIVE trailing_sep_by0_loop(_, _, _, _, _, _, _)

\* The loop ending the list before the trailing delimiter instead of after it.
trailing_sep_by0_loop_unconsumed(delimiter, parser, state, buf, calls, start_bytes_len, min_indent) ==
    LET rd == Parse(delimiter, state, min_indent)
        cd == Append(calls, Ran("delimiter", state, min_indent, rd))
    IN  CASE rd.kind = "Ok" ->
                LET next_state == rd.state
                    re == Parse(parser, next_state, min_indent)
                    ce == Append(cd, Ran("parser", next_state, min_indent, re))
                IN  CASE re.kind = "Ok" ->
                            IF debug_assertions /\ re.progress # MadeProgress
                            THEN With(Panic, ce)
                            ELSE IF re.state = state THEN With(Diverge, ce)
                            ELSE trailing_sep_by0_loop(delimiter, parser, re.state,
                                                       Append(buf, re.out), ce,
                                                       start_bytes_len, min_indent)
                      [] re.kind = "Err" ->
                            LET progress ==
                                    from_lengths(start_bytes_len, Len(bytes(state)))
                            IN  IF progress = Panicked THEN With(Panic, ce)
                                ELSE With(Ok(progress, Vec(buf), state), ce)
                      [] OTHER -> With(re, ce)
          [] Failed(rd, MadeProgress) -> With(Err(MadeProgress, rd.fail), cd)
          [] Failed(rd, NoProgress) -> With(Ok(NoProgress, Vec(buf), state), cd)
          [] OTHER -> With(rd, cd)

trailing_sep_by0_loop(delimiter, parser, state, buf, calls, start_bytes_len, min_indent) ==
    LET rd == Parse(delimiter, state, min_indent)
        cd == Append(calls, Ran("delimiter", state, min_indent, rd))
    IN  CASE rd.kind = "Ok" ->
                LET next_state == rd.state
                    re == Parse(parser, next_state, min_indent)
                    ce == Append(cd, Ran("parser", next_state, min_indent, re))
                IN  CASE re.kind = "Ok" ->
                            IF debug_assertions /\ re.progress # MadeProgress
                            THEN With(Panic, ce)
                            ELSE IF re.state = state THEN With(Diverge, ce)
                            ELSE trailing_sep_by0_loop(delimiter, parser, re.state,
                                                       Append(buf, re.out), ce,
                                                       start_bytes_len, min_indent)
                      [] re.kind = "Err" ->
                            LET progress ==
                                    from_lengths(start_bytes_len, Len(bytes(next_state)))
                            IN  IF progress = Panicked THEN With(Panic, ce)
                                ELSE With(Ok(progress, Vec(buf), next_state), ce)
                      [] OTHER -> With(re, ce)
          [] Failed(rd, MadeProgress) -> With(Err(MadeProgress, rd.fail), cd)
          [] Failed(rd, NoProgress) -> With(Ok(NoProgress, Vec(buf), state), cd)
          [] OTHER -> With(rd, cd)

trailing_sep_by0(delimiter, parser, state, min_indent) ==
    LET original_state == state
        start_bytes_len == Len(bytes(state))
        r == Parse(parser, state, min_indent)
        c == Ran("parser", state, min_indent, r)
    IN  CASE r.kind = "Ok" ->
                IF debug_assertions /\ r.progress # MadeProgress
                THEN With(Panic, <<c>>)
                ELSE trailing_sep_by0_loop(delimiter, parser, r.state, <<r.out>>, <<c>>,
                                           start_bytes_len, min_indent)
          [] Failed(r, MadeProgress) -> With(Err(MadeProgress, r.fail), <<c>>)
          [] Failed(r, NoProgress) -> With(Ok(NoProgress, Vec(<<>>), original_state), <<c>>)
          [] OTHER -> With(r, <<c>>)

RECURSIVE sep_by1_loop(_, _, _, _, _, _, _)

\* The loop taking a delimiter with no element after it as the end of the
\* list, as trailing_sep_by0 does.
sep_by1_loop_lenient(delimiter, parser, state, buf, calls, start_bytes_len, min_indent) ==
    LET old_state == state
        rd == Parse(delimiter, state, min_indent)
        cd == Append(calls, Ran("delimiter", state, min_indent, rd))
    IN  CASE rd.kind = "Ok" ->
                LET next_state == rd.state
                    re == Parse(parser, next_state, min_indent)
                    ce == Append(cd, Ran("parser", next_state, min_indent, re))
                IN  CASE re.kind = "Ok" ->
                            IF re.state = old_state THEN With(Diverge, ce)
                            ELSE sep_by1_loop(delimiter, parser, re.state,
                                              Append(buf, re.out), ce,
                                              start_bytes_len, min_indent)
                      [] Failed(re, MadeProgress) -> With(Err(MadeProgress, re.fail), ce)
                      [] Failed(re, NoProgress) ->
                            With(Ok(MadeProgress, Vec(buf), next_state), ce)
                      [] OTHER -> With(re, ce)
          [] Failed(rd, MadeProgress) -> With(Err(MadeProgress, rd.fail), cd)
          [] Failed(rd, NoProgress) ->
                LET progress == from_lengths(start_bytes_len, Len(bytes(old_state)))
                IN  IF progress = Panicked THEN With(Panic, cd)
                    ELSE With(Ok(progress, Vec(buf), old_state), cd)
          [] OTHER -> With(rd, cd)

sep_by1_loop(delimiter, parser, state, buf, calls, start_bytes_len, min_indent) ==
    LET old_state == state
        rd == Parse(delimiter, state, min_indent)
        cd == Append(calls, Ran("delimiter", state, min_indent, rd))
    IN  CASE rd.kind = "Ok" ->
                LET next_state == rd.state
                    re == Parse(parser, next_state, min_indent)
                    ce == Append(cd, Ran("parser", next_state, min_indent, re))
                IN  CASE re.kind = "Ok" ->
                            IF re.state = old_state THEN With(Diverge, ce)
                            ELSE sep_by1_loop(delimiter, parser, re.state,
                                              Append(buf, re.out), ce,
                                              start_bytes_len, min_indent)
                      [] re.kind = "Err" -> With(Err(MadeProgress, re.fail), ce)
                      [] OTHER -> With(re, ce)
          [] Failed(rd, MadeProgress) -> With(Err(MadeProgress, rd.fail), cd)
          [] Failed(rd, NoProgress) ->
                LET progress == from_lengths(start_bytes_len, Len(bytes(old_state)))
                IN  IF progress = Panicked THEN With(Panic, cd)
                    ELSE With(Ok(progress, Vec(buf), old_state), cd)
          [] OTHER -> With(rd, cd)

sep_by1(delimiter, parser, state, min_indent) ==
    LET start_bytes_len == Len(bytes(state))
        r == Parse(parser, state, min_indent)
        c == Ran("parser", state, min_indent, r)
    IN  CASE r.kind = "Ok" ->
                IF debug_assertions /\ r.progress # MadeProgress
                THEN With(Panic, <<c>>)
                ELSE sep_by1_loop(delimiter, parser, r.state, <<r.out>>, <<c>>,
                                  start_bytes_len, min_indent)
          [] r.kind = "Err" -> With(Err(r.progress, r.fail), <<c>>)
          [] OTHER -> With(r, <<c>>)

RECURSIVE sep_by1_e_loop(_, _, _, _, _, _, _, _)

\* The loop reporting a missing element at the position before the delimiter.
sep_by1_e_loop_before_delimiter(delimiter, parser, to_element_error, state, buf, calls, start_bytes_len, min_indent) ==
    LET old_state == state
        rd == Parse(delimiter, state, min_indent)
        cd == Append(calls, Ran("delimiter", state, min_indent, rd))
    IN  CASE rd.kind = "Ok" ->
                LET next_state == rd.state
                    re == Parse(parser, next_state, min_indent)
                    ce == Append(cd, Ran("parser", next_state, min_indent, re))
                IN  CASE re.kind = "Ok" ->
                            IF re.state = old_state THEN With(Diverge, ce)
                            ELSE sep_by1_e_loop(delimiter, parser, to_element_error,
                                                re.state, Append(buf, re.out), ce,
                                                start_bytes_len, min_indent)
                      [] Failed(re, MadeProgress) -> With(Err(MadeProgress, re.fail), ce)
                      [] Failed(re, NoProgress) ->
                            With(Err(NoProgress,
                                     Problem(to_element_error, pos(old_state))), ce)
                      [] OTHER -> With(re, ce)
          [] Failed(rd, MadeProgress) -> With(Err(MadeProgress, rd.fail), cd)
          [] Failed(rd, NoProgress) ->
                LET progress == from_lengths(start_bytes_len, Len(bytes(old_state)))
                IN  IF progress = Panicked THEN With(Panic, cd)
                    ELSE With(Ok(progress, Vec(buf), old_state), cd)
          [] OTHER -> With(rd, cd)

sep_by1_e_loop(delimiter, parser, to_element_error, state, buf, calls, start_bytes_len, min_indent) ==
    LET old_state == state
        rd == Parse(delimiter, state, min_indent)
        cd == Append(calls, Ran("delimiter", state, min_indent, rd))
    IN  CASE rd.kind = "Ok" ->
                LET next_state == rd.state
                    re == Parse(parser, next_state, min_indent)
                    ce == Append(cd, Ran("parser", next_state, min_indent, re))
                IN  CASE re.kind = "Ok" ->
                            IF re.state = old_state THEN With(Diverge, ce)
                            ELSE sep_by1_e_loop(delimiter, parser, to_element_error,
                                                re.state, Append(buf, re.out), ce,
                                                start_bytes_len, min_indent)
                      [] Failed(re, MadeProgress) -> With(Err(MadeProgress, re.fail), ce)
                      [] Failed(re, NoProgress) ->
                            With(Err(NoProgress,
                                     Problem(to_element_error, pos(next_state))), ce)
                      [] OTHER -> With(re, ce)
          [] Failed(rd, MadeProgress) -> With(Err(MadeProgress, rd.fail), cd)
          [] Failed(rd, NoProgress) ->
                LET progress == from_lengths(start_bytes_len, Len(bytes(old_state)))
                IN  IF progress = Panicked THEN With(Panic, cd)
                    ELSE With(Ok(progress, Vec(buf), old_state), cd)
          [] OTHER -> With(rd, cd)

sep_by1_e(delimiter, parser, to_element_error, state, min_indent) ==
    LET original_state == state
        start_bytes_len == Len(bytes(state))
        r == Parse(parser, state, min_indent)
        c == Ran("parser", state, min_indent, r)
    IN  CASE r.kind = "Ok" ->
                IF debug_assertions /\ r.progress # MadeProgress
                THEN With(Panic, <<c>>)
                ELSE sep_by1_e_loop(delimiter, parser, to_element_error, r.state,
                                    <<r.out>>, <<c>>, start_bytes_len, min_indent)
          [] Failed(r, MadeProgress) -> With(Err(MadeProgress, r.fail), <<c>>)
          [] Failed(r, NoProgress) ->
                With(Err(NoProgress, Problem(to_element_error, pos(original_state))), <<c>>)
          [] OTHER -> With(r, <<c>>)

----------------------------------------------------------------------------
(* and_then, then, fail_when, record! *)

\* The closures handed to and_then, Fn(Progress, Before) -> P2: one that
\* returns the same parser whatever it is given, as in the doc test, and one
\* that chooses by the progress of the first parser.
Always(parser) == [f |-> "always", parser |-> parser]
ByProgress(made, none) == [f |-> "by_progress", made |-> made, none |-> none]

\* transform(progress, output) of and_then.
transform_parser(transform, progress, output) ==
    CASE transform.f = "always" -> transform.parser
      [] transform.f = "by_progress" ->
            IF progress = MadeProgress THEN transform.made ELSE transform.none

\* and_then adding the first parser's progress to the second's, as and! does.
and_then_combining(parser, transform, state, min_indent) ==
    LET r1 == Parse(parser, state, min_indent)
        c1 == Ran("parser", state, min_indent, r1)
    IN  IF r1.kind = "Ok"
        THEN LET r2 == Parse(transform_parser(transform, r1.progress, r1.out), r1.state, min_indent)
                 c2 == Ran("transform", r1.state, min_indent, r2)
             IN  IF r2.kind \in {"Ok", "Err"}
                 THEN With([r2 EXCEPT !.progress = or(r1.progress, @)], <<c1, c2>>)
                 ELSE With(r2, <<c1, c2>>)
        ELSE With(r1, <<c1>>)

and_then(parser, transform, state, min_indent) ==
    LET r1 == Parse(parser, state, min_indent)
        c1 == Ran("parser", state, min_indent, r1)
    IN  IF r1.kind = "Ok"
        THEN LET r2 == Parse(transform_parser(transform, r1.progress, r1.out), r1.state, min_indent)
                 c2 == Ran("transform", r1.state, min_indent, r2)
             IN  With(r2, <<c1, c2>>)
        ELSE With(r1, <<c1>>)

\* The closures handed to then, Fn(&Bump, State, Progress, Before) ->
\* ParseResult: the check of the doc test (an even offset passes the
\* first parser's result on, an odd one fails with NoProgress), and one
\* that keeps the output and the state but reports NoProgress.
then_transform(transform, new_state, progress, output) ==
    CASE transform = "even_offset" ->
            IF pos(new_state) % 2 = 0
            THEN Ok(progress, output, new_state)
            ELSE Err(NoProgress, Problem("OddChar", pos(new_state)))
      [] transform = "quiet" -> Ok(NoProgress, output, new_state)

then(parser, transform, state, min_indent) ==
    LET r1 == Parse(parser, state, min_indent)
        c1 == Ran("parser", state, min_indent, r1)
    IN  IF r1.kind = "Ok"
        THEN LET r2 == then_transform(transform, r1.state, r1.progress, r1.out)
                 c2 == Ran("transform", r1.state, min_indent, r2)
             IN  With(r2, <<c1, c2>>)
        ELSE With(r1, <<c1>>)

\* fail_when reporting the position that p reached.
fail_when_at_end(f, p, state, min_indent) ==
    LET r == Parse(p, state, min_indent)
        c == Ran("p", state, min_indent, r)
    IN  CASE r.kind = "Ok" -> With(Err(MadeProgress, Problem(f, pos(r.state))), <<c>>)
          [] OTHER -> With(r, <<c>>)

fail_when(f, p, state, min_indent) ==
    LET original_state == state
        r == Parse(p, state, min_indent)
        c == Ran("p", state, min_indent, r)
    IN  CASE r.kind = "Ok" -> With(Err(MadeProgress, Problem(f, pos(original_state))), <<c>>)
          [] OTHER -> With(r, <<c>>)

\* The struct literal record! builds: the outputs of the fields, in order.
Struct(name, values) == [t |-> "struct", name |-> name, values |-> values]

\* The fields of record! from the first of parsers on: each is parsed on
\* the state the one before it left, and `?` returns its failure as it is.
RECURSIVE record_fields(_, _, _, _, _, _, _)
record_fields(name, parsers, state, progress, values, calls, min_indent) ==
    IF parsers = <<>>
    THEN With(Ok(progress, Struct(name, values), state), calls)
    ELSE LET r == Parse(Head(parsers), state, min_indent)
             c == Ran("field", state, min_indent, r)
         IN  IF r.kind = "Ok"
             THEN record_fields(name, Tail(parsers), r.state, or(progress, r.progress), Append(values, r.out), Append(calls, c), min_indent)
             ELSE With(r, Append(calls, c))

record(name, fields, state, min_indent) ==
    record_fields(name, fields, state, NoProgress, <<>>, <<>>, min_indent)

----------------------------------------------------------------------------
(* skip_first!, skip_second!, between! and a leaf that reads a number *)

skip_first(p1, p2, state, min_indent) ==
    LET r1 == Parse(p1, state, min_indent)
        c1 == Ran("p1", state, min_indent, r1)
    IN  IF r1.kind = "Ok"
        THEN LET r2 == Parse(p2, r1.state, min_indent)
                 c2 == Ran("p2", r1.state, min_indent, r2)
             IN  CASE r2.kind = "Ok" ->
                        With(Ok(or(r1.progress, r2.progress), r2.out, r2.state), <<c1, c2>>)
                   [] r2.kind = "Err" ->
                        With(Err(or(r1.progress, r2.progress), r2.fail), <<c1, c2>>)
                   [] OTHER -> With(r2, <<c1, c2>>)
        ELSE With(r1, <<c1>>)

skip_second(p1, p2, state, min_indent) ==
    LET r1 == Parse(p1, state, min_indent)
        c1 == Ran("p1", state, min_indent, r1)
    IN  IF r1.kind = "Ok"
        THEN LET r2 == Parse(p2, r1.state, min_indent)
                 c2 == Ran("p2", r1.state, min_indent, r2)
             IN  CASE r2.kind = "Ok" ->
                        With(Ok(or(r1.progress, r2.progress), r1.out, r2.state), <<c1, c2>>)
                   [] r2.kind = "Err" ->
                        With(Err(or(r1.progress, r2.progress), r2.fail), <<c1, c2>>)
                   [] OTHER -> With(r2, <<c1, c2>>)
        ELSE With(r1, <<c1>>)

\* between! leaving the closing brace where it stands.
between_unclosed(opening_brace, parser, closing_brace, state, min_indent) ==
    skip_first(opening_brace, parser, state, min_indent)

between(opening_brace, parser, closing_brace, state, min_indent) ==
    skip_first(opening_brace, SkipSecond(parser, closing_brace), state, min_indent)

Digits == <<"0", "1", "2", "3", "4", "5", "6", "7", "8", "9">>

IsDigit(b) == \E d \in 1..Len(Digits) : Digits[d] = b

DigitValue(b) == (CHOOSE d \in 1..Len(Digits) : Digits[d] = b) - 1

Number(value) == [t |-> "number", value |-> value]

\* The length of the run of digits that bs begins with.
RECURSIVE DigitRun(_)
DigitRun(bs) == IF bs # <<>> /\ IsDigit(Head(bs)) THEN 1 + DigitRun(Tail(bs)) ELSE 0

\* The number that the digits ds write in base ten.
RECURSIVE Decimal(_)
Decimal(ds) ==
    IF ds = <<>> THEN 0
    ELSE 10 * Decimal(SubSeq(ds, 1, Len(ds) - 1)) + DigitValue(ds[Len(ds)])

\* The length of the run of blanks that bs begins with.
RECURSIVE BlankRun(_)
BlankRun(bs) == IF bs # <<>> /\ Head(bs) = Blank THEN 1 + BlankRun(Tail(bs)) ELSE 0

\* A number literal of the end-to-end scenario, whose text "(1, 2, 3)"
\* puts a blank before the second and the third number and yields
\* [1, 2, 3]: number reads the blanks that stand at the cursor and then
\* the decimal digits, and fails with NoProgress when no digit follows.
number(to_error, state, min_indent) ==
    LET blanks == BlankRun(bytes(state))
        digits == DigitRun(SubSeq(bytes(state), blanks + 1, Len(bytes(state))))
    IN  IF digits > 0
        THEN Ok(MadeProgress,
                Number(Decimal(SubSeq(bytes(state), blanks + 1, blanks + digits))),
                advance(state, blanks + digits))
        ELSE Err(NoProgress, Problem(to_error, pos(state)))

----------------------------------------------------------------------------
(* Tracing *)

\* Parser::trace, in a build with or without the parse_debug_trace feature.
trace(self, message, parse_debug_trace) ==
    IF parse_debug_trace THEN Traced(self, message) ELSE self

\* The length of indent_text, of which Traced::parse prints the first
\* 2 * INDENT bytes.
indent_text_len == 72

----------------------------------------------------------------------------
(* Parser::parse: apply a parser value *)

\* No debug_assert of byte, byte_indent, word, two_bytes or three_bytes
\* (a literal that holds a newline) failed while p was built.  A function
\* takes its parsers as arguments, so they are built before it: so do
\* and(), loc() and map_with_arena(), the function versions of and!, loc!
\* and map_with_arena!.  A macro (and!, one_of!, loc!, ...) expands its
\* operands inside the closure it returns: building it builds none of
\* them, and each is built where the closure reaches `$p.parse(..)`.  A
\* continuation (and_then, then) builds its parser when it is called.
RECURSIVE Built(_)
Built(p) ==
    CASE p.c \in {"byte", "byte_indent"} -> p.byte_to_match # "\n"
      [] p.c = "word" -> \A i \in 1..Len(p.word) : p.word[i] # "\n"
      [] p.c = "two_bytes" -> p.byte_1 # "\n" /\ p.byte_2 # "\n"
      [] p.c = "three_bytes" -> p.byte_1 # "\n" /\ p.byte_2 # "\n" /\ p.byte_3 # "\n"
      [] p.c \in {"keyword", "number"} -> TRUE
      [] p.c = "and" -> p.form = "macro" \/ (Built(p.p1) /\ Built(p.p2))
      [] p.c \in {"loc", "map_with_arena"} -> p.form = "macro" \/ Built(p.parser)
      [] p.c \in {"one_of", "either", "skip_first", "skip_second", "between", "record", "indented_seq", "absolute_indented_seq", "zero_or_more", "one_or_more", "map"} -> TRUE
      [] p.c \in {"sep_by0", "trailing_sep_by0", "sep_by1", "sep_by1_e"} -> Built(p.delimiter) /\ Built(p.parser)
      [] p.c = "fail_when" -> Built(p.p)
      [] OTHER -> Built(p.parser)

\* Applying p where it stands in the source builds it first: a build with
\* debug assertions panics there, before p parses anything, when p is not
\* Built.
Parse(p, state, min_indent) ==
    CASE debug_assertions /\ ~Built(p) -> Panic
      [] p.c = "byte" -> byte(p.byte_to_match, p.to_error, state, min_indent)
      [] p.c = "byte_indent" -> byte_indent(p.byte_to_match, p.to_error, state, min_indent)
      [] p.c = "and_then" -> and_then(p.parser, p.transform, state, min_indent)
      [] p.c = "then" -> then(p.parser, p.transform, state, min_indent)
      [] p.c = "fail_when" -> fail_when(p.f, p.p, state, min_indent)
      [] p.c = "record" -> record(p.name, p.fields, state, min_indent)
      [] p.c = "skip_first" -> skip_first(p.p1, p.p2, state, min_indent)
      [] p.c = "skip_second" -> skip_second(p.p1, p.p2, state, min_indent)
      [] p.c = "between" ->
            between(p.opening_brace, p.parser, p.closing_brace, state, min_indent)
      [] p.c = "number" -> number(p.to_error, state, min_indent)
      [] p.c = "word" -> word(p.word, p.to_error, state, min_indent)
      [] p.c = "keyword" -> keyword(p.keyword_str, p.if_error, state, min_indent)
      [] p.c = "two_bytes" -> two_bytes(p.byte_1, p.byte_2, p.to_error, state, min_indent)
      [] p.c = "three_bytes" ->
            three_bytes(p.byte_1, p.byte_2, p.byte_3, p.to_error, state, min_indent)
      [] p.c = "indented_seq" -> indented_seq(p.p1, p.p2, state, min_indent)
      [] p.c = "absolute_indented_seq" ->
            absolute_indented_seq(p.p1, p.p2, state, min_indent)
      [] p.c = "reset_min_indent" -> reset_min_indent(p.parser, state, min_indent)
      [] p.c = "set_min_indent" -> set_min_indent(p.min_indent, p.parser, state, min_indent)
      [] p.c = "increment_min_indent" -> increment_min_indent(p.parser, state, min_indent)
      [] p.c = "line_min_indent" -> line_min_indent(p.parser, state, min_indent)
      [] p.c = "absolute_column_min_indent" ->
            absolute_column_min_indent(p.parser, state, min_indent)
      [] p.c = "and" -> and(p.p1, p.p2, state, min_indent)
      [] p.c = "one_of" -> one_of(p.p1, p.p2, state, min_indent)
      [] p.c = "either" -> either(p.p1, p.p2, state, min_indent)
      [] p.c = "optional" -> optional(p.parser, state, min_indent)
      [] p.c = "backtrackable" -> backtrackable(p.parser, state, min_indent)
      [] p.c = "loc" -> loc(p.parser, state, min_indent)
      [] p.c = "zero_or_more" -> zero_or_more(p.parser, state, min_indent)
      [] p.c = "one_or_more" -> one_or_more(p.parser, p.to_error, state, min_indent)
      [] p.c = "sep_by0" -> sep_by0(p.delimiter, p.parser, state, min_indent)
      [] p.c = "trailing_sep_by0" ->
            trailing_sep_by0(p.delimiter, p.parser, state, min_indent)
      [] p.c = "sep_by1" -> sep_by1(p.delimiter, p.parser, state, min_indent)
      [] p.c = "sep_by1_e" ->
            sep_by1_e(p.delimiter, p.parser, p.to_element_error, state, min_indent)
      [] p.c = "map" -> map(p.parser, p.transform, state, min_indent)
      [] p.c = "map_with_arena" -> map_with_arena(p.parser, p.transform, state, min_indent)
      [] p.c = "allocated" -> allocated(p.parser, state, min_indent)
      [] p.c = "specialize_err" -> specialize_err(p.map_error, p.parser, state, min_indent)
      [] p.c = "specialize_err_ref" ->
            specialize_err_ref(p.map_error, p.parser, state, min_indent)

----------------------------------------------------------------------------
(* The parsers handed to the combinators under test *)

ByteA == Byte("a", "ExpectedA")
ByteComma == Byte(",", "ExpectedComma")
TwoAs == And(ByteA, Byte("a", "ExpectedSecondA"))

Leaves == {ByteA, ByteComma}

Parsers ==
    Leaves \cup
    { LocOf(ByteA),                 \* an output that tells where it matched
      TwoAs,                        \* fails with MadeProgress on "a,"
      Optional(ByteA),              \* succeeds with NoProgress
      Backtrackable(TwoAs),         \* consumes, reports NoProgress
      SepBy0(ByteComma, ByteA) }     \* a list as a child

Alternatives == Leaves \cup {TwoAs, Optional(ByteA)}

\* Parsers whose outcome depends on min_indent, and ones it leaves alone.
ByteIndentA == ByteIndent("a", "WrongIndentLevel")
ByteIndentComma == ByteIndent(",", "WrongIndentLevel")

Tokens == Leaves \cup {ByteIndentA, ByteIndentComma}

Indentables == Tokens \cup {And(ByteA, ByteIndentComma)}

NoCall == [state |-> State_new(<<>>), min_indent |-> 0, parser |-> [c |-> "none"], args |-> <<>>]

----------------------------------------------------------------------------
(* The state machine: a buffer, a cursor into it, one top-level call *)

Init ==
    /\ source \in Inputs
    /\ debug_assertions \in BOOLEAN
    /\ cursor = State_new(source)
    /\ call = NoCall
    /\ result = NoResult
    /\ INDENT = 0
    /\ frames = <<>>

\* An earlier parser consumed one more byte of the buffer.
Advance ==
    /\ call = NoCall
    /\ pos(cursor) < MaxSkip
    /\ Len(bytes(cursor)) > 0
    /\ cursor' = skip(cursor)
    /\ UNCHANGED <<source, debug_assertions, call, result, INDENT, frames>>

\* The top-level call: p, written with the arguments args, applied to the
\* cursor.  The caller goes on from the state an Ok returns.
Call(p, args, m) ==
    LET r == Parse(p, cursor, m)
    IN  /\ call = NoCall
        /\ call' = [state |-> cursor, min_indent |-> m, parser |-> p, args |-> args]
        /\ result' = r
        /\ cursor' = IF r.kind = "Ok" THEN r.state ELSE cursor
        /\ UNCHANGED <<source, debug_assertions, INDENT, frames>>

Call_and ==
    \E p1, p2 \in Parsers, m \in 0..MaxIndent :
        \E p \in {And(p1, p2), AndFn(p1, p2)} : Call(p, <<p1, p2>>, m)

Call_one_of ==
    \E ps \in [1..2 -> Parsers] \cup [1..3 -> Alternatives], m \in 0..MaxIndent :
        Call(OneOfN(ps), ps, m)

Call_either ==
    \E p1, p2 \in Parsers, m \in 0..MaxIndent : Call(EitherOf(p1, p2), <<p1, p2>>, m)

Call_optional == \E p \in Parsers, m \in 0..MaxIndent : Call(Optional(p), <<p>>, m)

Call_backtrackable ==
    \E p \in Parsers, m \in 0..MaxIndent : Call(Backtrackable(p), <<p>>, m)

Call_loc ==
    \E p \in Parsers, m \in 0..MaxIndent :
        \E l \in {LocOf(p), LocFn(p)} : Call(l, <<p>>, m)

Call_zero_or_more == \E p \in Parsers, m \in 0..MaxIndent : Call(ZeroOrMore(p), <<p>>, m)

Call_one_or_more ==
    \E p \in Parsers, m \in 0..MaxIndent :
        Call(OneOrMore(p, "ExpectedOneOrMore"), <<p>>, m)

Call_sep_by0 ==
    \E d, p \in Parsers, m \in 0..MaxIndent : Call(SepBy0(d, p), <<d, p>>, m)

Call_trailing_sep_by0 ==
    \E d, p \in Parsers, m \in 0..MaxIndent : Call(TrailingSepBy0(d, p), <<d, p>>, m)

Call_sep_by1 ==
    \E d, p \in Parsers, m \in 0..MaxIndent : Call(SepBy1(d, p), <<d, p>>, m)

Call_sep_by1_e ==
    \E d, p \in Parsers, m \in 0..MaxIndent :
        Call(SepBy1E(d, p, "ExpectedElement"), <<d, p>>, m)

Call_specialize_err ==
    \E p \in Parsers, m \in 0..MaxIndent : Call(SpecializeErr("Other", p), <<p>>, m)

Call_specialize_err_ref ==
    \E p \in Parsers, m \in 0..MaxIndent : Call(SpecializeErrRef("Other", p), <<p>>, m)

\* The first parser of indented_seq! is one whose output is ().
Call_indented_seq ==
    \E p1 \in Tokens, p2 \in Indentables, m \in 0..MaxIndent :
        Call(IndentedSeq(p1, p2), <<p1, p2>>, m)

Call_absolute_indented_seq ==
    \E p1 \in Tokens, p2 \in Indentables, m \in 0..MaxIndent :
        Call(AbsoluteIndentedSeq(p1, p2), <<p1, p2>>, m)

Call_reset_min_indent ==
    \E p \in Indentables, m \in 0..MaxIndent : Call(ResetMinIndent(p), <<p>>, m)

Call_set_min_indent ==
    \E n \in 0..(MaxIndent + 1), p \in Indentables, m \in 0..MaxIndent :
        Call(SetMinIndent(n, p), <<p>>, m)

Call_increment_min_indent ==
    \E p \in Indentables, m \in 0..MaxIndent : Call(IncrementMinIndent(p), <<p>>, m)

Call_line_min_indent ==
    \E p \in Indentables, m \in 0..MaxIndent : Call(LineMinIndent(p), <<p>>, m)

Call_absolute_column_min_indent ==
    \E p \in Indentables, m \in 0..MaxIndent : Call(AbsoluteColumnMinIndent(p), <<p>>, m)

Call_map ==
    \E p \in Parsers, m \in 0..MaxIndent : Call(Map(p, "transform"), <<p>>, m)

Call_map_with_arena ==
    \E p \in Parsers, m \in 0..MaxIndent :
        \E q \in {MapWithArena(p, "transform"), MapWithArenaFn(p, "transform")} :
            Call(q, <<p>>, m)

Call_allocated == \E p \in Parsers, m \in 0..MaxIndent : Call(Allocated(p), <<p>>, m)

Next ==
    \/ Advance
    \/ Call_sep_by0
    \/ Call_trailing_sep_by0
    \/ Call_sep_by1
    \/ Call_sep_by1_e
    \/ Call_optional
    \/ Call_and
    \/ Call_one_of
    \/ Call_zero_or_more
    \/ Call_one_or_more
    \/ Call_either
    \/ Call_loc
    \/ Call_backtrackable
    \/ Call_specialize_err
    \/ Call_specialize_err_ref
    \/ Call_map
    \/ Call_map_with_arena
    \/ Call_allocated
    \/ Call_indented_seq
    \/ Call_absolute_indented_seq
    \/ Call_reset_min_indent
    \/ Call_set_min_indent
    \/ Call_increment_min_indent
    \/ Call_line_min_indent
    \/ Call_absolute_column_min_indent

Spec == Init /\ [][Next]_vars

----------------------------------------------------------------------------
(* The literal matchers, called on buffers that hold a literal's text *)

When == <<"w", "h", "e", "n">>

\* What may follow the text: letters of an identifier, the bytes keyword
\* accepts, and a tab.
FollowBytes == {"c", "e", " ", "#", "\n", "\r", "\t"}

Prefixes(w) == {SubSeq(w, 1, n) : n \in 0..Len(w)}

\* Leading blanks, a prefix of "when", and up to MaxFollow bytes after it:
\* "when", "when ", "whence", "wh", "when#e", ...
LiteralInputs ==
    {Blanks(k) \o head \o follow :
        k \in 0..MaxIndent, head \in Prefixes(When), follow \in SeqsUpTo(FollowBytes, MaxFollow)}

LiteralInit ==
    /\ source \in LiteralInputs
    /\ debug_assertions \in BOOLEAN
    /\ cursor = State_new(source)
    /\ call = NoCall
    /\ result = NoResult
    /\ INDENT = 0
    /\ frames = <<>>

\* The grammar around the core consumed a blank that leads the line.
SkipBlank ==
    /\ call = NoCall
    /\ Len(bytes(cursor)) > 0
    /\ bytes(cursor)[1] = Blank
    /\ line_indent(cursor) = column(cursor)
    /\ column(cursor) < MaxIndent
    /\ cursor' = skip(cursor)
    /\ UNCHANGED <<source, debug_assertions, call, result, INDENT, frames>>

MinIndents == 0..(MaxIndent + 1)

Call_byte == \E m \in MinIndents : Call(Byte("w", "NotFound"), <<<<"w">>, "NotFound">>, m)
Call_byte_indent == \E b \in {"w", "h"}, m \in MinIndents : Call(ByteIndent(b, "WrongIndentLevel"), <<b, "WrongIndentLevel">>, m)
Call_two_bytes == \E m \in MinIndents : Call(TwoBytes("w", "h", "NotFound"), <<<<"w", "h">>, "NotFound">>, m)
Call_three_bytes == \E m \in MinIndents : Call(ThreeBytes("w", "h", "e", "NotFound"), <<<<"w", "h", "e">>, "NotFound">>, m)
Call_word == \E w \in {When, <<"w", "h">>}, m \in MinIndents : Call(Word(w, "NotFound"), <<w, "NotFound">>, m)
Call_keyword == \E k \in {When, <<"w", "h">>}, m \in MinIndents : Call(Keyword(k, "NotFound"), <<k, "NotFound">>, m)

LiteralNext ==
    \/ SkipBlank
    \/ Call_byte
    \/ Call_byte_indent
    \/ Call_two_bytes
    \/ Call_three_bytes
    \/ Call_word
    \/ Call_keyword

LiteralSpec == LiteralInit /\ [][LiteralNext]_vars

----------------------------------------------------------------------------
(* The end-to-end scenario: a parenthesised list of numbers *)

ListDigits == {"1", "2", "3"}

\* The items joined by the separator.
RECURSIVE Joined(_, _)
Joined(items, separator) ==
    IF Len(items) <= 1 THEN items
    ELSE <<Head(items)>> \o separator \o Joined(Tail(items), separator)

\* "(" items ")", the items separated by separator, the closing parenthesis
\* there or missing.
ListText(items, separator, closed) ==
    <<"(">> \o Joined(items, separator) \o (IF closed THEN <<")">> ELSE <<>>)

Separators == {<<",">>, <<",", Blank>>}

\* "(1,2,3)", "(1, 2, 3)", "(2", "(3,1)", ...
ScenarioInputs ==
    {ListText(items, separator, closed) :
        items \in SeqsUpTo(ListDigits, MaxItems) \ {<<>>}, separator \in Separators, closed \in BOOLEAN}

ScenarioInit ==
    /\ source \in ScenarioInputs
    /\ debug_assertions \in BOOLEAN
    /\ cursor = State_new(source)
    /\ call = NoCall
    /\ result = NoResult
    /\ INDENT = 0
    /\ frames = <<>>

\* loc(between!(byte(b'('), sep_by1(byte(b','), number), byte(b')')))
NumberList ==
    LocFn(Between(Byte("(", "ExpectedOpen"),
                  SepBy1(Byte(",", "ExpectedComma"), NumberLiteral("ExpectedNumber")),
                  Byte(")", "ExpectedClose")))

Call_between == Call(NumberList, <<NumberList.parser>>, 0)

ScenarioNext == Call_between

ScenarioSpec == ScenarioInit /\ [][ScenarioNext]_vars

----------------------------------------------------------------------------
(* and_then, then, fail_when and record!, called on the buffers of Inputs *)

\* What and_then's closure may return: a parser that heeds min_indent too.
Continuations ==
    {Always(ByteComma), Always(ByteIndentA), ByProgress(ByteIndentA, ByteComma)}

Call_and_then == \E p \in Alternatives, f \in Continuations, m \in MinIndents : Call(AndThen(p, f), <<p, f>>, m)
Call_then == \E p \in Alternatives, f \in {"even_offset", "quiet"}, m \in 0..MaxIndent : Call(Then(p, f), <<p, f>>, m)
Call_fail_when == \E p \in Alternatives, m \in 0..MaxIndent : Call(FailWhen("OtherProblem", p), <<"OtherProblem", p>>, m)
Call_record == \E fields \in [1..2 -> Alternatives] \cup [1..3 -> Alternatives], m \in 0..MaxIndent : Call(Record("Fields", fields), <<"Fields", fields>>, m)

ChainNext ==
    \/ Advance
    \/ Call_and_then
    \/ Call_then
    \/ Call_fail_when
    \/ Call_record

ChainSpec == Init /\ [][ChainNext]_vars

----------------------------------------------------------------------------
(* Tracing: parsers on which trace was called, run step by step *)

TracedParsers == Alternatives

\* Traced::parse is entered, by the caller or by the Traced::parse around
\* it: it reads INDENT, prints the first 2 * INDENT bytes of indent_text,
\* which panics beyond the text's length, and raises INDENT by one.
Traced_enter ==
    /\ call = NoCall
    /\ result = NoResult
    /\ Len(frames) < MaxDepth
    /\ LET cur_indent == INDENT
       IN  IF cur_indent * 2 > indent_text_len
           THEN /\ result' = Panic
                /\ UNCHANGED <<INDENT, frames>>
           ELSE /\ INDENT' = cur_indent + 1
                /\ frames' = Append(frames, cur_indent)
                /\ UNCHANGED result
    /\ UNCHANGED <<source, debug_assertions, cursor, call>>

\* The innermost Traced::parse calls self.parser.parse, on the state and
\* with the min_indent every Traced::parse around it was given.
Traced_inner ==
    /\ frames # <<>>
    /\ result = NoResult
    /\ \E p \in TracedParsers, m \in 0..MaxIndent :
            Call(p, <<p, "message", TRUE>>, m)

\* A Traced::parse whose parser has returned res puts INDENT back to the
\* cur_indent it read, prints, and returns res.
Traced_exit ==
    /\ call # NoCall
    /\ frames # <<>>
    /\ result.kind \in {"Ok", "Err"}
    /\ INDENT' = frames[Len(frames)]
    /\ frames' = SubSeq(frames, 1, Len(frames) - 1)
    /\ UNCHANGED <<source, debug_assertions, cursor, call, result>>

\* Bytes are consumed before the traced parser is called, not while it runs.
Advance_untraced == frames = <<>> /\ Advance

\* In a build without the feature, the parser that trace returns is called.
Call_untraced ==
    /\ frames = <<>>
    /\ \E p \in TracedParsers, m \in 0..MaxIndent :
            Call(trace(p, "message", FALSE), <<p, "message", FALSE>>, m)

TraceNext ==
    \/ Advance_untraced
    \/ Traced_enter
    \/ Traced_inner
    \/ Traced_exit
    \/ Call_untraced

TraceSpec == Init /\ [][TraceNext]_vars

----------------------------------------------------------------------------
(* Vocabulary of the properties *)

Called(c) == call.parser.c = c

Remaining(s) == Len(bytes(s))

\* The ParseResult of applying p, as the call did, to state s.
Applied(p, s) == Outcome(Parse(p, s, call.min_indent))

\* r records a genuine application of p to s with the call's min_indent.
IsRunOf(r, p, s) ==
    /\ r.state = s
    /\ r.min_indent = call.min_indent
    /\ r.res = Parse(p, s, call.min_indent)

\* The outputs of the successful attempts of one argument, in the order run.
RECURSIVE OutputsOf(_, _)
OutputsOf(calls, role) ==
    IF calls = <<>> THEN <<>>
    ELSE LET c == Head(calls)
         IN  (IF c.role = role /\ c.res.kind = "Ok" THEN <<c.res.out>> ELSE <<>>)
                 \o OutputsOf(Tail(calls), role)

----------------------------------------------------------------------------
(* C1: choice *)

\* The attempts a one_of! of n alternatives made on its alternatives, in
\* order, read off the nested binary one_of! calls it expands to.
RECURSIVE AlternativesRun(_, _)
AlternativesRun(r, n) ==
    IF n = 2 \/ Len(r.calls) < 2 THEN r.calls
    ELSE <<r.calls[1]>> \o AlternativesRun(r.calls[2].res, n - 1)

\* Alternative i settles the choice: it does anything but fail with NoProgress.
Settles(i) == ~Failed(Applied(call.args[i], call.state), NoProgress)

\* The alternative whose result the choice returns: the first that settles
\* it, the last one when none does.
Chosen ==
    LET n == Len(call.args)
    IN  IF \E i \in 1..n : Settles(i)
        THEN CHOOSE i \in 1..n : Settles(i) /\ \A j \in 1..(i - 1) : ~Settles(j)
        ELSE n

\* C1: one_of!(P1, ..., Pn) on state S returns exactly the result, on S, of
\* the first alternative that succeeds or fails with MadeProgress, and when
\* every alternative fails with NoProgress the failure of the last one; the
\* alternatives are run in source order, each on S with the caller's
\* min_indent, and no alternative after the chosen one is run.
C1_Choice ==
    Called("one_of") =>
        LET runs == AlternativesRun(result, Len(call.args))
        IN  /\ Outcome(result) = Applied(call.args[Chosen], call.state)
            /\ Len(runs) = Chosen
            /\ \A i \in 1..Chosen : IsRunOf(runs[i], call.args[i], call.state)

\* Three alternatives, all failing with NoProgress somewhere past the start of
\* the buffer: the failure returned is the third one's.
C1_Witness ==
    /\ Called("one_of")
    /\ Len(call.args) = 3
    /\ pos(call.state) > 0
    /\ \A i \in 1..3 : Failed(Applied(call.args[i], call.state), NoProgress)
    /\ Applied(call.args[3], call.state) # Applied(call.args[2], call.state)
    /\ Applied(call.args[3], call.state) # Applied(call.args[1], call.state)
    /\ Outcome(result) = Applied(call.args[3], call.state)

----------------------------------------------------------------------------
(* C2: sequencing *)

EitherMade(a, b) == IF MadeProgress \in {a, b} THEN MadeProgress ELSE NoProgress

\* C2: and!(A, B) on state S runs A on S and, when A succeeds, B on A's
\* resulting state, both with the caller's min_indent.  A's failure is
\* returned as it is and B is not run; otherwise the progress is A's OR B's,
\* on success with the pair of outputs and B's final state, on B's failure
\* with B's error.
C2_Sequencing ==
    Called("and") =>
        LET A == call.args[1]
            B == call.args[2]
            ra == Applied(A, call.state)
        IN  /\ IsRunOf(result.calls[1], A, call.state)
            /\ IsErr(ra) => /\ Outcome(result) = ra
                            /\ Len(result.calls) = 1
            /\ IsOk(ra) =>
                LET rb == Applied(B, ra.state)
                    progress == EitherMade(ra.progress, rb.progress)
                IN  /\ Len(result.calls) = 2
                    /\ IsRunOf(result.calls[2], B, ra.state)
                    /\ IsOk(rb) => Outcome(result) =
                                        Ok(progress, Pair(ra.out, rb.out), rb.state)
                    /\ IsErr(rb) => Outcome(result) = Err(progress, rb.fail)

\* A consumed input and reported it, B then failed without consuming: the
\* failure is B's error with MadeProgress.
C2_Witness ==
    /\ Called("and")
    /\ IsOk(Applied(call.args[1], call.state))
    /\ Applied(call.args[1], call.state).progress = MadeProgress
    /\ Failed(Applied(call.args[2], Applied(call.args[1], call.state).state), NoProgress)
    /\ Failed(result, MadeProgress)
    /\ result.fail.pos > pos(call.state)

----------------------------------------------------------------------------
(* C3: progress monotonicity *)

\* C3: a parser composed from the combinators over leaf matchers that consume
\* on every match, when it succeeds with MadeProgress, returns a state with
\* strictly fewer remaining bytes than it was given, and when it succeeds
\* with NoProgress, a state with as many.
C3_ProgressMonotonicity ==
    (call # NoCall /\ IsOk(result)) =>
        /\ result.progress = MadeProgress =>
                Remaining(result.state) < Remaining(call.state)
        /\ result.progress = NoProgress =>
                Remaining(result.state) = Remaining(call.state)

----------------------------------------------------------------------------
(* C4: the commit rule *)

Committing ==
    {"and", "one_of", "either", "optional", "zero_or_more", "one_or_more",
     "sep_by0", "trailing_sep_by0", "sep_by1", "sep_by1_e"}

\* The i-th attempt of a trailing_sep_by0 call is an element attempt that
\* follows a delimiter.
IsElementAfterDelimiter(i) ==
    /\ Called("trailing_sep_by0")
    /\ i > 1
    /\ result.calls[i].role = "parser"

\* C4 as claimed: in every combinator but backtrackable, a child attempt that
\* fails with MadeProgress makes the combinator fail with MadeProgress.
C4_CommitRule ==
    call.parser.c \in Committing =>
        \A i \in DOMAIN result.calls :
            Failed(result.calls[i].res, MadeProgress) => Failed(result, MadeProgress)

\* C4 as amended: the same, except that trailing_sep_by0 takes the failure of
\* an element attempt that follows a delimiter as the end of the list: it
\* succeeds with the elements collected so far and the state right after
\* that delimiter.
C4_CommitRuleAmended ==
    call.parser.c \in Committing =>
        \A i \in DOMAIN result.calls :
            Failed(result.calls[i].res, MadeProgress) =>
                IF IsElementAfterDelimiter(i)
                THEN /\ IsOk(result)
                     /\ result.state = result.calls[i].state
                     /\ result.out = Vec(OutputsOf(result.calls, "parser"))
                ELSE Failed(result, MadeProgress)

\* A list combinator other than trailing_sep_by0 whose element, after a
\* delimiter, consumed input and then failed.
C4_Witness ==
    /\ call.parser.c \in {"sep_by0", "sep_by1", "sep_by1_e"}
    /\ Len(result.calls) >= 3
    /\ result.calls[Len(result.calls)].role = "parser"
    /\ Failed(result.calls[Len(result.calls)].res, MadeProgress)
    /\ Failed(result, MadeProgress)

----------------------------------------------------------------------------
(* C5: termination of repetition *)

Repeating ==
    {"zero_or_more", "one_or_more", "sep_by0", "trailing_sep_by0", "sep_by1", "sep_by1_e"}

\* Wherever in the buffer it is applied, p returns, and when it succeeds it
\* has consumed at least one byte and says so.
ConsumesOnSuccess(p) ==
    \A k \in 0..Len(source) :
        LET s == advance(State_new(source), k)
            r == Applied(p, s)
        IN  /\ r.kind \in {"Ok", "Err"}
            /\ IsOk(r) => r.progress = MadeProgress /\ Remaining(r.state) < Remaining(s)

\* The iterations of the call's `loop`: each begins with an attempt of the
\* delimiter, or of the element where there is no delimiter.
Iterations ==
    IF call.parser.c \in {"zero_or_more", "one_or_more"}
    THEN Len(result.calls) - 1
    ELSE Cardinality({i \in DOMAIN result.calls : result.calls[i].role = "delimiter"})

\* C5: with an element parser that consumes at least one byte on every
\* success and reports it, a repetition returns, after at most as many loop
\* iterations as bytes remained in its input state, a list no longer than that.
C5_Termination ==
    (call.parser.c \in Repeating /\ ConsumesOnSuccess(call.parser.parser)) =>
        /\ result.kind \in {"Ok", "Err"}
        /\ Iterations <= Remaining(call.state)
        /\ IsOk(result) => Len(result.out.items) <= Remaining(call.state)

\* The bound is met: a repetition over three bytes or more that returns one
\* element for each byte.
C5_Witness ==
    /\ call.parser.c \in Repeating
    /\ ConsumesOnSuccess(call.parser.parser)
    /\ IsOk(result)
    /\ Remaining(call.state) >= 3
    /\ Len(result.out.items) = Remaining(call.state)
    /\ Iterations = Remaining(call.state)

----------------------------------------------------------------------------
(* C6: optional *)

\* C6: optional(P) on state S returns P's success with the output wrapped in
\* Some, P's failure as it is when it made progress, and otherwise the
\* success (NoProgress, None, S); it never fails with NoProgress.
C6_Optional ==
    Called("optional") =>
        LET r == Applied(call.args[1], call.state)
        IN  /\ IsOk(r) => Outcome(result) = Ok(r.progress, Some(r.out), r.state)
            /\ Failed(r, NoProgress) => Outcome(result) = Ok(NoProgress, None, call.state)
            /\ Failed(r, MadeProgress) => Outcome(result) = r
            /\ ~Failed(result, NoProgress)

\* P failed with NoProgress after the cursor had moved: None, and the state
\* optional was given.
C6_Witness ==
    /\ Called("optional")
    /\ pos(call.state) > 0
    /\ Failed(Applied(call.args[1], call.state), NoProgress)
    /\ Outcome(result) = Ok(NoProgress, None, call.state)

----------------------------------------------------------------------------
(* C7: zero_or_more *)

\* The attempts are applications of p, the first to state s and each other
\* one to the state the attempt before it returned; all but the last succeed.
IsChainOf(calls, p, s) ==
    /\ Len(calls) >= 1
    /\ \A i \in DOMAIN calls :
        /\ calls[i].role = "parser"
        /\ IsRunOf(calls[i], p, IF i = 1 THEN s ELSE calls[i - 1].res.state)
        /\ i < Len(calls) => IsOk(calls[i].res)

\* C7: zero_or_more!(P) applies P again and again, each time to the state the
\* success before returned, up to the first failing attempt.  A failure with
\* MadeProgress is returned as it is; after a failure with NoProgress the
\* result is the success holding the earlier outputs in order and the state
\* before the failing attempt, with MadeProgress iff that state has fewer
\* remaining bytes than the input state.
C7_ZeroOrMore ==
    (Called("zero_or_more") /\ result.kind \in {"Ok", "Err"}) =>
        LET last == result.calls[Len(result.calls)]
        IN  /\ IsChainOf(result.calls, call.args[1], call.state)
            /\ IsErr(last.res)
            /\ Failed(last.res, MadeProgress) =>
                    Outcome(result) = Err(MadeProgress, last.res.fail)
            /\ Failed(last.res, NoProgress) =>
                    Outcome(result) =
                        Ok(IF Remaining(last.state) < Remaining(call.state)
                           THEN MadeProgress ELSE NoProgress,
                           Vec(OutputsOf(result.calls, "parser")),
                           last.state)

\* Two outputs or more, different from each other, collected before the
\* attempt that failed with NoProgress.
C7_Witness ==
    /\ Called("zero_or_more")
    /\ IsOk(result)
    /\ result.progress = MadeProgress
    /\ Len(result.out.items) >= 2
    /\ result.out.items[1] # result.out.items[2]
    /\ Remaining(result.state) > 0

----------------------------------------------------------------------------
(* C8: one_or_more *)

\* C8: every success of one_or_more!(P, to_error) holds a non-empty list; a
\* first attempt that fails with NoProgress makes it fail with NoProgress and
\* to_error(position of the input state); an attempt that fails with
\* MadeProgress, the first or a later one, makes it fail with MadeProgress
\* and P's own error.
C8_OneOrMore ==
    (Called("one_or_more") /\ result.kind \in {"Ok", "Err"}) =>
        LET last == result.calls[Len(result.calls)]
        IN  /\ IsChainOf(result.calls, call.args[1], call.state)
            /\ IsOk(result) => Len(result.out.items) >= 1
            /\ Failed(result.calls[1].res, NoProgress) =>
                    Outcome(result) =
                        Err(NoProgress, Problem(call.parser.to_error, pos(call.state)))
            /\ Failed(last.res, MadeProgress) =>
                    Outcome(result) = Err(MadeProgress, last.res.fail)

----------------------------------------------------------------------------
(* C9: the empty separated list *)

\* C9: when the first element attempt of sep_by0 or trailing_sep_by0 fails
\* with NoProgress, the result is the empty list with NoProgress and the
\* input state, and the delimiter is not run; when it fails with
\* MadeProgress, that failure is the result.
C9_EmptyList ==
    call.parser.c \in {"sep_by0", "trailing_sep_by0"} =>
        LET r == Applied(call.parser.parser, call.state)
        IN  /\ IsRunOf(result.calls[1], call.parser.parser, call.state)
            /\ Failed(r, NoProgress) =>
                /\ Outcome(result) = Ok(NoProgress, Vec(<<>>), call.state)
                /\ Len(result.calls) = 1
            /\ Failed(r, MadeProgress) =>
                /\ Outcome(result) = r
                /\ Len(result.calls) = 1

\* No element where the list should start, past the start of the buffer, at
\* a byte the delimiter would have matched.
C9_Witness ==
    /\ call.parser.c \in {"sep_by0", "trailing_sep_by0"}
    /\ pos(call.state) > 0
    /\ Failed(Applied(call.parser.parser, call.state), NoProgress)
    /\ IsOk(Applied(call.parser.delimiter, call.state))
    /\ Applied(call.parser.delimiter, call.state).progress = MadeProgress
    /\ Outcome(result) = Ok(NoProgress, Vec(<<>>), call.state)

----------------------------------------------------------------------------
(* C10: the loop of sep_by0 and sep_by1 *)

\* After the first element the attempts alternate: delimiter, element, ...,
\* each applied to the state the attempt before it returned; all but the
\* last succeed.
IsAlternation(calls, delimiter, parser, s) ==
    \A i \in DOMAIN calls :
        /\ calls[i].role = (IF i % 2 = 0 THEN "delimiter" ELSE "parser")
        /\ IsRunOf(calls[i], IF i % 2 = 0 THEN delimiter ELSE parser,
                   IF i = 1 THEN s ELSE calls[i - 1].res.state)
        /\ i < Len(calls) => IsOk(calls[i].res)

\* C10: in sep_by0 and sep_by1, once the first element has parsed, a
\* delimiter failing with NoProgress ends the list: success with the
\* elements so far, in order, no delimiter output among them, and the state
\* from before that delimiter attempt.  A delimiter failing with MadeProgress
\* makes the combinator fail with MadeProgress and the delimiter's error; an
\* element failing after a delimiter makes it fail with the element's error.
C10_ListLoop ==
    (call.parser.c \in {"sep_by0", "sep_by1"}
        /\ result.kind \in {"Ok", "Err"} /\ Len(result.calls) > 1) =>
        LET last == result.calls[Len(result.calls)]
        IN  /\ IsAlternation(result.calls, call.parser.delimiter, call.parser.parser,
                             call.state)
            /\ IsErr(last.res)
            /\ (last.role = "delimiter" /\ Failed(last.res, NoProgress)) =>
                    /\ IsOk(result)
                    /\ result.out = Vec(OutputsOf(result.calls, "parser"))
                    /\ result.state = last.state
            /\ (last.role = "delimiter" /\ Failed(last.res, MadeProgress)) =>
                    Outcome(result) = Err(MadeProgress, last.res.fail)
            /\ last.role = "parser" =>
                    /\ IsErr(result)
                    /\ result.fail = last.res.fail

\* A delimiter consumed input and the element after it failed without
\* consuming: the combinator fails with that element's error.
C10_Witness ==
    /\ call.parser.c \in {"sep_by0", "sep_by1"}
    /\ Len(result.calls) >= 3
    /\ result.calls[Len(result.calls) - 1].res.progress = MadeProgress
    /\ result.calls[Len(result.calls)].role = "parser"
    /\ Failed(result.calls[Len(result.calls)].res, NoProgress)
    /\ IsErr(result)
    /\ result.fail = result.calls[Len(result.calls)].res.fail

----------------------------------------------------------------------------
(* C11: trailing_sep_by0 against sep_by0 *)

\* The call ended on an element attempt that followed a delimiter and failed.
EndsOnElementAfterDelimiter ==
    /\ Len(result.calls) >= 3
    /\ result.calls[Len(result.calls)].role = "parser"
    /\ IsErr(result.calls[Len(result.calls)].res)

\* C11: when, after at least one element, the delimiter succeeds and the
\* element after it fails, trailing_sep_by0 succeeds with the elements
\* collected so far and the state right after that delimiter, with
\* MadeProgress iff bytes were consumed since the start; in every other
\* situation it returns what sep_by0 returns on the same input.
C11_TrailingDelimiter ==
    Called("trailing_sep_by0") =>
        LET last == result.calls[Len(result.calls)]
            as_sep_by0 == sep_by0(call.parser.delimiter, call.parser.parser,
                                  call.state, call.min_indent)
        IN  IF EndsOnElementAfterDelimiter
            THEN /\ Outcome(result) =
                        Ok(IF Remaining(last.state) < Remaining(call.state)
                           THEN MadeProgress ELSE NoProgress,
                           Vec(OutputsOf(result.calls, "parser")),
                           last.state)
                 /\ last.state = result.calls[Len(result.calls) - 1].res.state
                 /\ IsErr(as_sep_by0)
            ELSE result = as_sep_by0

\* Two elements and a trailing delimiter that consumed input: the list of
\* both, and the state after the delimiter.
C11_Witness ==
    /\ Called("trailing_sep_by0")
    /\ EndsOnElementAfterDelimiter
    /\ IsOk(result)
    /\ Len(result.out.items) = 2
    /\ result.calls[Len(result.calls) - 1].res.progress = MadeProgress
    /\ pos(result.state) = pos(result.calls[Len(result.calls) - 1].state) + 1

----------------------------------------------------------------------------
(* C12: sep_by1 against sep_by0 *)

\* C12: on every state where the first element parses, sep_by1 returns what
\* sep_by0 returns for the same delimiter and element: the same success or
\* failure, progress, list, final state and error; where the first element
\* fails, sep_by1 fails.
C12_SepBy1AsSepBy0 ==
    Called("sep_by1") =>
        LET first == Applied(call.parser.parser, call.state)
            as_sep_by0 == sep_by0(call.parser.delimiter, call.parser.parser,
                                  call.state, call.min_indent)
        IN  /\ IsOk(first) => Outcome(result) = Outcome(as_sep_by0)
            /\ IsErr(first) => IsErr(result)

----------------------------------------------------------------------------
(* C13: sep_by1_e against sep_by1 *)

\* C13: sep_by1_e returns what sep_by1 returns, except where an element fails
\* with NoProgress: the first element's such failure gives
\* Err(NoProgress, to_element_error(position of the input state)), and such a
\* failure after a delimiter gives a failure with
\* to_element_error(position right after that delimiter).  An element
\* failing with MadeProgress is returned as it is.
C13_ElementError ==
    Called("sep_by1_e") =>
        LET last == result.calls[Len(result.calls)]
            to_element_error == call.parser.to_element_error
            as_sep_by1 == sep_by1(call.parser.delimiter, call.parser.parser,
                                  call.state, call.min_indent)
        IN  IF last.role = "parser" /\ Failed(last.res, NoProgress)
            THEN /\ IsErr(result)
                 /\ result.fail = Problem(to_element_error, pos(last.state))
                 /\ Len(result.calls) = 1 =>
                        Outcome(result) =
                            Err(NoProgress, Problem(to_element_error, pos(call.state)))
                 /\ Len(result.calls) > 1 =>
                        last.state = result.calls[Len(result.calls) - 1].res.state
            ELSE /\ result = as_sep_by1
                 /\ (last.role = "parser" /\ Failed(last.res, MadeProgress)) =>
                        Outcome(result) = Err(MadeProgress, last.res.fail)

\* After an element and a delimiter that consumed input, no element: the
\* error is to_element_error at the position after the delimiter.
C13_Witness ==
    /\ Called("sep_by1_e")
    /\ Len(result.calls) >= 3
    /\ result.calls[Len(result.calls)].role = "parser"
    /\ Failed(result.calls[Len(result.calls)].res, NoProgress)
    /\ result.calls[Len(result.calls) - 1].res.progress = MadeProgress
    /\ IsErr(result)
    /\ result.fail.problem = call.parser.to_element_error
    /\ result.fail.pos > pos(result.calls[Len(result.calls) - 1].state)

----------------------------------------------------------------------------
(* C14: the backtrackability law *)

\* C14: backtrackable(P) reports NoProgress on both outcomes, a success
\* keeping P's output and P's resulting state; so one_of!(backtrackable(P), Q)
\* on state S runs Q on S whenever P fails, even when P consumed input first.
C14_Backtrackability ==
    /\ Called("backtrackable") =>
            LET r == Applied(call.args[1], call.state)
            IN  /\ IsRunOf(result.calls[1], call.args[1], call.state)
                /\ IsOk(r) => Outcome(result) = Ok(NoProgress, r.out, r.state)
                /\ IsErr(r) => Failed(result, NoProgress)
    /\ (Called("one_of") /\ Len(call.args) = 2 /\ call.args[1].c = "backtrackable") =>
            LET P == call.args[1].parser
                Q == call.args[2]
            IN  IsErr(Applied(P, call.state)) =>
                    /\ Len(result.calls) = 2
                    /\ IsRunOf(result.calls[2], Q, call.state)
                    /\ Outcome(result) = Applied(Q, call.state)

\* P consumed a byte and failed; the choice went on to Q, which succeeded
\* from the original state.
C14_Witness ==
    /\ Called("one_of")
    /\ Len(call.args) = 2
    /\ call.args[1].c = "backtrackable"
    /\ Failed(Applied(call.args[1].parser, call.state), MadeProgress)
    /\ IsOk(result)
    /\ Outcome(result) = Applied(call.args[2], call.state)
    /\ result.progress = MadeProgress

----------------------------------------------------------------------------
(* C15: the error of a failing backtrackable *)

\* C15 as claimed: when P fails, the failure of backtrackable(P) is an empty
\* no-progress failure, not the error P produced.
C15_ErrorDiscarded ==
    Called("backtrackable") =>
        LET r == Applied(call.args[1], call.state)
        IN  IsErr(r) => /\ Failed(result, NoProgress)
                        /\ result.fail # r.fail

\* C15 as amended: when P fails, backtrackable(P) fails with NoProgress and
\* the error P produced, unchanged.
C15_ErrorKept ==
    Called("backtrackable") =>
        LET r == Applied(call.args[1], call.state)
        IN  IsErr(r) => Outcome(result) = Err(NoProgress, r.fail)

\* P failed after consuming: its error, at the place it stopped, is the
\* error returned.
C15_Witness ==
    /\ Called("backtrackable")
    /\ Failed(Applied(call.args[1], call.state), MadeProgress)
    /\ Failed(result, NoProgress)
    /\ result.fail.pos > pos(call.state)

----------------------------------------------------------------------------
(* C16: specialize_err and specialize_err_ref *)

\* C16: specialize_err(f, P) and specialize_err_ref(f, P) return P's success
\* unchanged, and for P's failure (progress, e) a failure with the same
\* progress and the error f(e, pos), pos being the position of the state the
\* combinator was given, not the position at which P stopped.
C16_SpecializeErr ==
    call.parser.c \in {"specialize_err", "specialize_err_ref"} =>
        LET r == Applied(call.args[1], call.state)
            f == call.parser.map_error
            e == IF Called("specialize_err") THEN r.fail ELSE alloc(r.fail)
        IN  /\ Len(result.calls) = 1
            /\ IsRunOf(result.calls[1], call.args[1], call.state)
            /\ IsOk(r) => Outcome(result) = r
            /\ IsErr(r) =>
                    Outcome(result) = Err(r.progress, Mapped(f, e, pos(call.state)))

\* P stopped past the position it started at: the error is tagged with the
\* starting position.
C16_Witness ==
    /\ Called("specialize_err")
    /\ pos(call.state) > 0
    /\ Failed(result, MadeProgress)
    /\ result.fail.inner.pos > pos(call.state)
    /\ result.fail.pos = pos(call.state)

----------------------------------------------------------------------------
(* C17: span attachment *)

\* C17: when P succeeds with (progress, v, S'), loc(P) on S succeeds with
\* (progress, Loc of v with the region from S's position to S''s, S'): the
\* region bounds exactly the bytes P consumed, its start is not after its
\* end, and it is zero-width exactly when P consumed nothing.  P's failure
\* is returned unchanged.
C17_SpanAttachment ==
    Called("loc") =>
        LET r == Applied(call.args[1], call.state)
        IN  /\ IsRunOf(result.calls[1], call.args[1], call.state)
            /\ IsErr(r) => Outcome(result) = r
            /\ IsOk(r) =>
                LET region == result.out.region
                IN  /\ Outcome(result) =
                            Ok(r.progress,
                               Loc(Region(pos(call.state), pos(r.state)), r.out),
                               r.state)
                    /\ region.start <= region.end
                    /\ region.end - region.start =
                            Remaining(call.state) - Remaining(result.state)
                    /\ SubSeq(source, region.start + 1, region.end) =
                            SubSeq(bytes(call.state), 1,
                                   Remaining(call.state) - Remaining(result.state))
                    /\ (region.start = region.end) <=> (result.state = call.state)

\* P consumed two bytes or more, starting past the start of the buffer.
C17_Witness ==
    /\ Called("loc")
    /\ IsOk(result)
    /\ result.out.region.start > 0
    /\ result.out.region.end >= result.out.region.start + 2
    /\ Remaining(result.state) > 0

----------------------------------------------------------------------------
(* C18: output-only transforms *)

\* What the transform of the call makes of an output.
TransformOf(out) ==
    CASE Called("map") -> Transformed(call.parser.transform, out)
      [] Called("map_with_arena") -> TransformedInArena(call.parser.transform, out)
      [] Called("allocated") -> alloc(out)

\* C18: map!(P, f), map_with_arena!(P, f) and allocated(P) return, for P's
\* success, P's progress and final state with the output replaced by f of
\* it (for allocated, a reference to it), and P's failure with its progress
\* and error as they are.
C18_OutputOnly ==
    call.parser.c \in {"map", "map_with_arena", "allocated"} =>
        LET r == Applied(call.args[1], call.state)
        IN  /\ Len(result.calls) = 1
            /\ IsRunOf(result.calls[1], call.args[1], call.state)
            /\ IsOk(r) => Outcome(result) = Ok(r.progress, TransformOf(r.out), r.state)
            /\ IsErr(r) => Outcome(result) = r

\* P succeeded in the middle of the buffer: its progress and state come
\* through, its output transformed.
C18_Witness ==
    /\ Called("map")
    /\ IsOk(result)
    /\ result.progress = MadeProgress
    /\ pos(call.state) > 0
    /\ pos(result.state) > pos(call.state)
    /\ Remaining(result.state) > 0
    /\ result.out = Transformed(call.parser.transform, result.calls[1].res.out)

----------------------------------------------------------------------------
(* C19: indentation threshold wrappers *)

MinIndentWrappers ==
    {"reset_min_indent", "set_min_indent", "increment_min_indent", "line_min_indent",
     "absolute_column_min_indent"}

\* The min_indent the wrapper of the call is to hand to its parser.
WrappedMinIndent ==
    CASE Called("reset_min_indent") -> 0
      [] Called("set_min_indent") -> call.parser.min_indent
      [] Called("increment_min_indent") -> call.min_indent + 1
      [] Called("line_min_indent") ->
            IF call.state.line_indent >= call.min_indent
            THEN call.state.line_indent ELSE call.min_indent
      [] Called("absolute_column_min_indent") -> call.state.offset + 1

\* C19: with ambient min_indent m on state S, reset_min_indent(P) runs P with
\* min_indent 0, set_min_indent(n, P) with n, increment_min_indent(P) with
\* m + 1, line_min_indent(P) with the greater of S's line indentation and m,
\* absolute_column_min_indent(P) with S's column + 1; each runs P once, on
\* S, and returns P's outcome unchanged.
C19_MinIndentWrappers ==
    call.parser.c \in MinIndentWrappers =>
        /\ Len(result.calls) = 1
        /\ result.calls[1].state = call.state
        /\ result.calls[1].min_indent = WrappedMinIndent
        /\ result.calls[1].res = Parse(call.args[1], call.state, WrappedMinIndent)
        /\ Outcome(result) = Outcome(Parse(call.args[1], call.state, WrappedMinIndent))

\* Past the start of the line, a token that the ambient min_indent allows
\* where the cursor stands is refused: it must begin right of the cursor.
C19_Witness ==
    /\ Called("absolute_column_min_indent")
    /\ pos(call.state) > 0
    /\ result.calls[1].min_indent = pos(call.state) + 1
    /\ IsOk(Applied(call.args[1], call.state))
    /\ IsErr(result)

----------------------------------------------------------------------------
(* C20: indented sequencing *)

\* The base column of the call: the line's indentation for indented_seq!,
\* the cursor's column for absolute_indented_seq!, both of the state the
\* call was given.
BaseIndent ==
    IF Called("indented_seq") THEN call.state.line_indent ELSE call.state.offset

\* C20: indented_seq!(A, B) on S runs A with min_indent = S's line
\* indentation and then B, on A's resulting state, with that + 1, whatever
\* the ambient min_indent and whatever the state after A;
\* absolute_indented_seq!(A, B) does the same from S's column.  Progress on
\* success and on B's failure is A's OR B's; A's failure is returned as it is.
C20_IndentedSeq ==
    call.parser.c \in {"indented_seq", "absolute_indented_seq"} =>
        LET A == call.args[1]
            B == call.args[2]
            ra == Outcome(Parse(A, call.state, BaseIndent))
        IN  /\ result.calls[1] = Ran("p1", call.state, BaseIndent,
                                     Parse(A, call.state, BaseIndent))
            /\ IsErr(ra) => /\ Outcome(result) = ra
                            /\ Len(result.calls) = 1
            /\ IsOk(ra) =>
                LET rb == Outcome(Parse(B, ra.state, BaseIndent + 1))
                    progress == EitherMade(ra.progress, rb.progress)
                IN  /\ Len(result.calls) = 2
                    /\ result.calls[2] = Ran("p2", ra.state, BaseIndent + 1,
                                             Parse(B, ra.state, BaseIndent + 1))
                    /\ IsOk(rb) => /\ IsOk(result)
                                   /\ result.progress = progress
                                   /\ result.state = rb.state
                    /\ IsErr(rb) => Outcome(result) = Err(progress, rb.fail)

\* A stands at the cursor's column, which the ambient min_indent would
\* refuse; B stands one column further and is allowed there, as it would
\* not be were its threshold taken from the state after A.
C20_Witness ==
    /\ Called("absolute_indented_seq")
    /\ call.args[1].c = "byte_indent"
    /\ call.args[2].c = "byte_indent"
    /\ call.min_indent > pos(call.state)
    /\ IsOk(result)
    /\ result.calls[2].min_indent = pos(result.calls[2].state)

----------------------------------------------------------------------------
(* C21: indentation rejection *)

\* C21: byte_indent(b, E) on S with ambient min_indent m fails with
\* NoProgress and E(S.pos), whatever the next byte, whenever m > S.column;
\* whenever m <= S.column it behaves exactly like byte(b, E): it succeeds
\* with MadeProgress consuming one byte iff the next byte is b, and
\* otherwise fails with NoProgress and E(S.pos).
C21_IndentationRejection ==
    Called("byte_indent") =>
        LET b == call.args[1]
            E == call.args[2]
            S == call.state
            m == call.min_indent
            refused == Err(NoProgress, Problem(E, pos(S)))
        IN  /\ m > column(S) => Outcome(result) = refused
            /\ m <= column(S) =>
                /\ Outcome(result) = Outcome(byte(b, E, S, m))
                /\ IsOk(result) <=> (Remaining(S) > 0 /\ bytes(S)[1] = b)
                /\ IsOk(result) => /\ result.progress = MadeProgress
                                   /\ result.out = Unit
                                   /\ result.state = advance(S, 1)
                /\ ~IsOk(result) => Outcome(result) = refused

\* The token is the one asked for, but stands left of min_indent.
C21_Witness ==
    /\ Called("byte_indent")
    /\ call.min_indent > column(call.state)
    /\ column(call.state) > 0
    /\ Remaining(call.state) > 0
    /\ bytes(call.state)[1] = call.args[1]
    /\ result = Err(NoProgress, Problem(call.args[2], pos(call.state)))

----------------------------------------------------------------------------
(* C22: word and what follows the literal *)

\* The byte after the first n bytes of what remains of s is one that ends a
\* keyword, or there is none.
EndsAfter(s, n) == Len(bytes(s)) > n => bytes(s)[n + 1] \in KeywordEnd

\* C22 as stated: word(w, E) matches only when the literal w is immediately
\* followed by whitespace, a comment start, a newline or end of input, so
\* that word("when", E) on "whence" fails with NoProgress.
C22_WordDelimited ==
    Called("word") =>
        /\ IsOk(result) => EndsAfter(call.state, Len(call.args[1]))
        /\ bytes(call.state) = When \o <<"c", "e">> /\ call.args[1] = When =>
                Failed(result, NoProgress)

----------------------------------------------------------------------------
(* C23: keyword *)

\* The characters that may stand after a keyword: the blank that separates
\* tokens, the start of a comment, the end of a line.  A tab is none of them.
Whitespace == {" "}
CommentStart == {"#"}
EndOfLine == {"\n", "\r"}

\* What remains of s starts with k, and k is not the start of a longer word.
IsKeywordAt(k, s) ==
    /\ Len(bytes(s)) >= Len(k)
    /\ \A i \in 1..Len(k) : bytes(s)[i] = k[i]
    /\ \/ Len(bytes(s)) = Len(k)
       \/ bytes(s)[Len(k) + 1] \in Whitespace \cup CommentStart \cup EndOfLine

\* C23: keyword(k, E) on S succeeds, with MadeProgress and the state
\* advanced by exactly len(k) bytes, iff the remaining input starts with k
\* and the next character after k is whitespace, the start of a comment,
\* the end of a line, or absent; in every other case (k a proper prefix of
\* a longer identifier included) it fails with NoProgress and E(S.pos).
C23_Keyword ==
    Called("keyword") =>
        LET k == call.args[1]
            S == call.state
        IN  /\ IsOk(result) <=> IsKeywordAt(k, S)
            /\ IsOk(result) =>
                /\ result.progress = MadeProgress
                /\ result.out = Unit
                /\ result.state = [S EXCEPT !.offset = @ + Len(k)]
                /\ cursor = result.state
            /\ ~IsOk(result) =>
                /\ result = Err(NoProgress, Problem(call.args[2], pos(S)))
                /\ cursor = S

\* keyword("when", E) on "whence", after a blank: refused at offset 1.
C23_Witness ==
    /\ Called("keyword")
    /\ call.args[1] = When
    /\ pos(call.state) = 1
    /\ bytes(call.state) = When \o <<"c", "e">>
    /\ result = Err(NoProgress, Problem("NotFound", 1))

----------------------------------------------------------------------------
(* C24: the literal matchers *)

LiteralMatchers == {"byte", "two_bytes", "three_bytes", "word"}

\* What remains of s begins with the bytes of literal.
BeginsWith(s, literal) ==
    /\ Len(bytes(s)) >= Len(literal)
    /\ \A i \in 1..Len(literal) : bytes(s)[i] = literal[i]

\* C24: byte, two_bytes, three_bytes and word ignore min_indent and, on
\* S: if the remaining input starts with the literal they succeed with
\* MadeProgress and the state advanced by exactly the literal's length
\* (1, 2, 3, len(word)); otherwise, also when fewer bytes remain than the
\* literal is long, they fail with NoProgress and to_error(S.pos),
\* consuming nothing.
C24_LiteralMatchers ==
    call.parser.c \in LiteralMatchers =>
        LET literal == call.args[1]
            S == call.state
        IN  /\ Called("byte") => Len(literal) = 1
            /\ Called("two_bytes") => Len(literal) = 2
            /\ Called("three_bytes") => Len(literal) = 3
            /\ BeginsWith(S, literal) =>
                /\ result = Ok(MadeProgress, Unit, [S EXCEPT !.offset = @ + Len(literal)])
                /\ cursor = result.state
            /\ ~BeginsWith(S, literal) =>
                /\ result = Err(NoProgress, Problem(call.args[2], pos(S)))
                /\ cursor = S
            /\ \A m \in MinIndents : Parse(call.parser, S, m) = result

\* three_bytes("whe") with only "wh" left, right of nothing that min_indent
\* would allow: it fails for want of bytes, at the cursor.
C24_Witness ==
    /\ Called("three_bytes")
    /\ bytes(call.state) = <<"w", "h">>
    /\ pos(call.state) > 0
    /\ call.min_indent > column(call.state)
    /\ result = Err(NoProgress, Problem("NotFound", pos(call.state)))

----------------------------------------------------------------------------
(* C25: tracing *)

\* The call of a parser on which trace was called has returned to its caller.
TraceReturned == call # NoCall /\ Len(call.args) = 3 /\ call.args[2] = "message" /\ frames = <<>>

\* C25: with the parse_debug_trace feature enabled, Traced(P).parse returns
\* exactly the result of P.parse for every parser P, every state and every
\* depth of nested traced parsers (no Traced::parse ends otherwise than by
\* returning it), and the thread-local nesting-depth counter after the
\* call equals its value before the call (0 here) on success and on
\* failure; with the feature disabled, trace(msg) returns the parser itself.
C25_Tracing ==
    /\ (call = NoCall /\ frames # <<>>) => result = NoResult
    /\ TraceReturned =>
        LET P == call.args[1]
            parse_debug_trace == call.args[3]
        IN  /\ ~parse_debug_trace => call.parser = P
            /\ result = Parse(P, call.state, call.min_indent)
            /\ result.kind \in {"Ok", "Err"} => INDENT = 0

----------------------------------------------------------------------------
(* C26: the end-to-end scenario *)

OneTwoThree == Vec(<<Number(1), Number(2), Number(3)>>)

\* C26 as stated: parsing the 9-byte input "(1, 2, 3)" from offset 0 with
\* between!(byte('('), sep_by1(byte(','), number), byte(')')), wrapped in
\* loc, succeeds with the list [1, 2, 3], MadeProgress, and a region
\* spanning offsets [0, 9).
C26_EndToEnd ==
    (call.parser = NumberList /\ source = <<"(", "1", ",", " ", "2", ",", " ", "3", ")">>) =>
        Outcome(result) = Ok(MadeProgress, Loc(Region(0, 9), OneTwoThree), advance(call.state, 9))

\* "(1, 2, 3)" parsed whole from offset 0: the list of the three numbers,
\* the blanks read with them, and the closing parenthesis consumed.
C26_Witness ==
    /\ call.parser = NumberList
    /\ source = <<"(", "1", ",", " ", "2", ",", " ", "3", ")">>
    /\ pos(call.state) = 0
    /\ IsOk(result)
    /\ result.progress = MadeProgress
    /\ result.out.value = OneTwoThree
    /\ result.out.region = Region(0, 9)
    /\ Remaining(result.state) = 0

----------------------------------------------------------------------------
(* C27: choice and progress *)

\* Alternative i, run on the state of the call, returns with MadeProgress.
MakesProgress(i) ==
    LET r == Applied(call.args[i], call.state)
    IN  r.kind \in {"Ok", "Err"} /\ r.progress = MadeProgress

\* The first alternative that makes progress, the last one when none does.
FirstProgressing ==
    LET n == Len(call.args)
    IN  IF \E i \in 1..n : MakesProgress(i)
        THEN CHOOSE i \in 1..n : MakesProgress(i) /\ \A j \in 1..(i - 1) : ~MakesProgress(j)
        ELSE n

\* Every alternative returns a ParseResult.
AlternativesReturn ==
    \A i \in 1..Len(call.args) : Applied(call.args[i], call.state).kind \in {"Ok", "Err"}

\* C27 as stated: one_of!(P1, ..., Pn) returns the result of the first
\* alternative that makes progress, whether it succeeded or failed, and the
\* last alternative's result if none makes progress; alternatives that
\* succeed with NoProgress included.
C27_FirstProgress ==
    (Called("one_of") /\ AlternativesReturn) =>
        Outcome(result) = Applied(call.args[FirstProgressing], call.state)

----------------------------------------------------------------------------
(* C28: and_then and then *)

\* C28: and_then(P1, f) and then(P1, f) run P1 on S; if P1 fails, its
\* failure is returned as it is and f is not called; if P1 succeeds with
\* (progress, out, S'), the result is exactly what f's continuation returns
\* on S' (for and_then: the parser f(progress, out) run on S' with the same
\* min_indent), P1's progress not being combined into it: a failure of the
\* second step after P1 consumed input carries the second step's progress.
C28_Chaining ==
    call.parser.c \in {"and_then", "then"} =>
        LET P1 == call.args[1]
            f == call.args[2]
            m == call.min_indent
            r1 == Parse(P1, call.state, m)
        IN  /\ result.calls[1] = Ran("parser", call.state, m, r1)
            /\ IsErr(r1) => /\ Outcome(result) = Outcome(r1)
                            /\ Len(result.calls) = 1
            /\ IsOk(r1) =>
                LET continued ==
                        IF Called("and_then")
                        THEN Parse(transform_parser(f, r1.progress, r1.out), r1.state, m)
                        ELSE then_transform(f, r1.state, r1.progress, r1.out)
                IN  /\ Len(result.calls) = 2
                    /\ result.calls[2] = Ran("transform", r1.state, m, continued)
                    /\ Outcome(result) = Outcome(continued)

\* As "hello!! world" in the doc test: P1 consumes, the parser f returns
\* fails at once where P1 stopped, and the failure says NoProgress there.
C28_Witness ==
    /\ Called("and_then")
    /\ result.calls[1].res.kind = "Ok"
    /\ result.calls[1].res.progress = MadeProgress
    /\ pos(result.calls[1].res.state) > pos(call.state)
    /\ Outcome(result) =
            Err(NoProgress, Problem("ExpectedComma", pos(result.calls[1].res.state)))

----------------------------------------------------------------------------
(* C29: fail_when *)

\* C29: fail_when(f, P) never succeeds: if P succeeds on S, with any
\* progress, the result is the failure (MadeProgress, f(S.pos)), S.pos being
\* the position before P ran; if P fails, P's failure, progress and error,
\* is returned unchanged.  P is run once, on S.
C29_FailWhen ==
    Called("fail_when") =>
        LET f == call.args[1]
            P == call.args[2]
            r == Parse(P, call.state, call.min_indent)
        IN  /\ ~IsOk(result)
            /\ cursor = call.state
            /\ result.calls = <<Ran("p", call.state, call.min_indent, r)>>
            /\ IsOk(r) => Outcome(result) = Err(MadeProgress, Problem(f, pos(call.state)))
            /\ IsErr(r) => Outcome(result) = Outcome(r)

\* P consumes two bytes from offset 1 on: the failure points at offset 1.
C29_Witness ==
    /\ Called("fail_when")
    /\ pos(call.state) = 1
    /\ IsOk(result.calls[1].res)
    /\ pos(result.calls[1].res.state) = 3
    /\ Outcome(result) = Err(MadeProgress, Problem("OtherProblem", 1))

----------------------------------------------------------------------------
(* C30: record! and and! *)

\* The left-nested chain and!(and!(P1, P2), ..., Pn).
RECURSIVE AndChain(_)
AndChain(ps) ==
    IF Len(ps) = 1 THEN ps[1]
    ELSE And(AndChain(SubSeq(ps, 1, Len(ps) - 1)), ps[Len(ps)])

\* C30: record!{f1: P1, ..., fn: Pn} is sequencing with the progress rule of
\* and!: on every state it succeeds or fails as the left-nested chain
\* and!(and!(P1, P2), ..., Pn) does, with the same progress and the same
\* final state or error; when a field fails after an earlier field made
\* progress, the failure is reported with MadeProgress.
C30_RecordAsAnd ==
    Called("record") =>
        LET chain == Applied(AndChain(call.args[2]), call.state)
        IN  /\ result.kind = chain.kind
            /\ IsOk(result) => /\ result.progress = chain.progress
                               /\ result.state = chain.state
            /\ IsErr(result) =>
                /\ result.progress = chain.progress
                /\ result.fail = chain.fail
                /\ (\E k \in 1..(Len(result.calls) - 1) :
                        result.calls[k].res.progress = MadeProgress) =>
                            result.progress = MadeProgress

====
